---- MODULE Spec2Model ----
(***************************************************************************)
(* Model of the "latest publication" maintenance code of statschat:        *)
(* statschat/embedding/latest_updates.py (find_latest, compare_latest,     *)
(* unflag_former_latest, update_split_documents), the section splitter of  *)
(* statschat/embedding/preprocess.py and the move of inbound records into  *)
(* the store of statschat/pdf_processing/merge_database_files.py; of the   *)
(* fragment locator find_matching_chunks; and of the query path of         *)
(* statschat/generative/cloud_llm_openrouter.py (Inquirer.make_query,      *)
(* query_texts, similarity_search) with process_question of                *)
(* statschat/generative/questions_model.py.  Spec is the maintenance code, *)
(* SpecLocator the locator, SpecQuery the query path, SpecBuild the        *)
(* constructor of PrepareVectorStore with its copy step, SpecCache the     *)
(* lru_cache of make_query and SpecRace two concurrent runs of             *)
(* unflag_former_latest.                                                   *)
(*                                                                         *)
(* A string is a sequence of one-character strings.  A JSON object is a    *)
(* sequence of <<key, value>> pairs with distinct keys, in insertion order *)
(* (a Python dict).  A file is a record [fmt, obj]: fmt is the layout of   *)
(* the text on disk ("compact", "indent4") or "corrupt" when the text is   *)
(* not JSON, obj the object the text denotes.  A directory is a function   *)
(* from file names to files.                                               *)
(***************************************************************************)
EXTENDS Integers, Sequences, FiniteSets, TLC

(***************************************************************************)
(* Bounds of the model.                                                    *)
(***************************************************************************)
\* longest list of names handed to unflag_former_latest / update_split_documents
MaxNames == 2

\* the most chunks the vector store holds near a question
MaxHits == 4
\* length of the stem of the long-named publications (longer than PrefixLen)
LongStemLen == 61
\* lru_cache() keeps the 128 most recently used entries; the memo of the model
\* keeps maxsize entries, few enough for an entry to be evicted within MaxCalls
\* calls of make_query
maxsize == 2
MaxCalls == 4
\* the longest list of names of a concurrent propagation
MaxRaceNames == 2

(***************************************************************************)
(* Program constants.                                                      *)
(***************************************************************************)
\* fuzz.ratio(fp, lf) > 75
Threshold == 75
\* base_name[:60]
PrefixLen == 60
\* len(section["page_text"]) > 5
MinTextLen == 5

(***************************************************************************)
(* Python string operations, on sequences of characters.                   *)
(***************************************************************************)
Max(a, b) == IF a >= b THEN a ELSE b

Min(a, b) == IF a <= b THEN a ELSE b

\* s[:n]
Take(s, n) == SubSeq(s, 1, Min(n, Len(s)))

\* s[n:]
Drop(s, n) == SubSeq(s, Min(n, Len(s)) + 1, Len(s))

\* s.startswith(p)
StartsWith(s, p) == Len(p) <= Len(s) /\ SubSeq(s, 1, Len(p)) = p

\* s.endswith(p)
EndsWith(s, p) == Len(p) <= Len(s) /\ SubSeq(s, Len(s) - Len(p) + 1, Len(s)) = p

\* the positions at which p occurs in s
Occurrences(s, p) == {i \in 1..(Len(s) - Len(p) + 1) : SubSeq(s, i, i + Len(p) - 1) = p}

\* p in s
Contains(s, p) == Occurrences(s, p) # {}

\* s.find(p, from): the first occurrence of p at or after position from, 0 if none
FindFrom(s, p, from) ==
    LET later == {i \in Occurrences(s, p) : i >= from}
    IN  IF later = {} THEN 0 ELSE CHOOSE i \in later : \A j \in later : i <= j

RECURSIVE SplitLastFrom(_, _, _)
SplitLastFrom(s, sep, from) ==
    LET i == FindFrom(s, sep, from)
    IN  IF i = 0 THEN SubSeq(s, from, Len(s))
        ELSE SplitLastFrom(s, sep, i + Len(sep))

\* s.split(sep)[-1]: what follows the last of the occurrences of sep, found
\* left to right without overlap (sep is never empty here)
SplitLast(s, sep) == SplitLastFrom(s, sep, 1)

RECURSIVE LStrip(_, _)
\* s.lstrip(c)
LStrip(s, c) == IF s # <<>> /\ Head(s) = c THEN LStrip(Tail(s), c) ELSE s

RECURSIVE ReplaceFrom(_, _, _)
ReplaceFrom(s, p, from) ==
    LET i == FindFrom(s, p, from)
    IN  IF i = 0 THEN SubSeq(s, from, Len(s))
        ELSE SubSeq(s, from, i - 1) \o ReplaceFrom(s, p, i + Len(p))

\* s.replace(p, ""): every occurrence of p, left to right, removed
Remove(s, p) == ReplaceFrom(s, p, 1)

\* os.path.basename(path)
Basename(path) == SplitLast(path, <<"/">>)

\* f"{d}/{name}"
Join(d, name) == d \o <<"/">> \o name

RECURSIVE Rep(_, _)
\* c * n
Rep(c, n) == IF n <= 0 THEN <<>> ELSE <<c>> \o Rep(c, n - 1)

DotJson == <<".", "j", "s", "o", "n">>

Zeros == <<"0", "0", "0", "0">>

\* glob's pattern "*.json" on a file name: '*' does not match a leading dot
GlobJson(name) == EndsWith(name, DotJson) /\ Head(name) # "."

\* glob's pattern f"{prefix}*.json" on a file name (prefix without wildcards)
GlobPrefixJson(name, prefix) ==
    /\ StartsWith(name, prefix)
    /\ EndsWith(Drop(name, Len(prefix)), DotJson)
    /\ (prefix = <<>> => Head(name) # ".")

(***************************************************************************)
(* rapidfuzz.fuzz.ratio: the normalised Indel similarity                   *)
(* 100 * (1 - (|a| + |b| - 2*LCS(a, b)) / (|a| + |b|)), i.e.               *)
(* 200 * LCS(a, b) / (|a| + |b|), and 100 for two empty strings.           *)
(***************************************************************************)
RECURSIVE LcsRow(_, _, _, _, _)
\* one row of the LCS table: acc holds the entries 0..j-1 of the row of a[i]
LcsRow(a, b, i, prev, acc) ==
    LET j == Len(acc)
    IN  IF j > Len(b) THEN acc
        ELSE LcsRow(a, b, i, prev,
                    Append(acc, IF a[i] = b[j] THEN prev[j] + 1
                                ELSE Max(prev[j + 1], acc[j])))

RECURSIVE LcsRows(_, _, _, _)
LcsRows(a, b, i, prev) ==
    IF i > Len(a) THEN prev[Len(b) + 1]
    ELSE LcsRows(a, b, i + 1, LcsRow(a, b, i, prev, <<0>>))

\* length of a longest common subsequence
Lcs(a, b) == LcsRows(a, b, 1, [j \in 1..(Len(b) + 1) |-> 0])

\* fuzz.ratio(a, b) > t, compared exactly (t an integer)
RatioAbove(a, b, t) ==
    IF Len(a) + Len(b) = 0 THEN 100 > t
    ELSE 200 * Lcs(a, b) > t * (Len(a) + Len(b))

\* fuzz.ratio(a, b) = t
RatioIs(a, b, t) ==
    IF Len(a) + Len(b) = 0 THEN t = 100
    ELSE 200 * Lcs(a, b) = t * (Len(a) + Len(b))

(***************************************************************************)
(* Python dicts (JSON objects) as sequences of <<key, value>> pairs.       *)
(***************************************************************************)
Keys(d) == {d[i][1] : i \in 1..Len(d)}

\* k in d
HasKey(d, k) == k \in Keys(d)

\* d[k], for a key of d
Get(d, k) == d[CHOOSE i \in 1..Len(d) : d[i][1] = k][2]

\* d[k] = v: an existing key keeps its place, a new key goes last
SetKey(d, k, v) ==
    IF HasKey(d, k) THEN [i \in 1..Len(d) |-> IF d[i][1] = k THEN <<k, v>> ELSE d[i]]
    ELSE Append(d, <<k, v>>)

\* the comprehension keeping every key
WithContent(d, k) == d

\* {i: d[i] for i in d if i != k}
Without(d, k) == SelectSeq(d, LAMBDA kv : kv[1] # k)

RECURSIVE Merge(_, _)
\* {**a, **b}
Merge(a, b) == IF b = <<>> THEN a ELSE Merge(SetKey(a, Head(b)[1], Head(b)[2]), Tail(b))

\* json.dumps(obj, indent=4) / json.dump(obj, file, indent=4), as written to a file
DumpIndent4(obj) == [fmt |-> "indent4", obj |-> obj]

\* json.load raises json.JSONDecodeError on a file that is not JSON
Corrupt(file) == file.fmt = "corrupt"

\* the files of a directory listing restricted to / extended by
Restrict(fs, names) == [n \in names |-> fs[n]]

Written(fs, name, file) == [n \in DOMAIN fs \cup {name} |-> IF n = name THEN file ELSE fs[n]]

\* the orders in which a directory scan (glob) can yield the names of S
Orders(S) == {f \in [1..Cardinality(S) -> S] : \A i, j \in 1..Cardinality(S) : f[i] = f[j] => i = j}

RECURSIVE Distinct(_)
\* the elements of a sequence as a set: set(seq)
Distinct(seq) == IF seq = <<>> THEN {} ELSE {Head(seq)} \cup Distinct(Tail(seq))

(***************************************************************************)
(* find_latest(dir): latest_updates.py lines 7-24.                         *)
(***************************************************************************)
\* find_latest testing the token against the whole path
FindLatestOpenedByPath(d, m) ==
    {n \in DOMAIN m : GlobJson(n) /\ ~Contains(Join(d, n), Zeros)}

\* the files the loop opens: glob(f"{dir}/*.json") without the "0000" names
FindLatestOpened(d, m) ==
    {n \in DOMAIN m : GlobJson(n) /\ ~Contains(Basename(Join(d, n)), Zeros)}

\* the exceptions the loop can raise: json.load on a corrupt file, ["latest"]
\* on a record without the key
FindLatestErrors(d, m) ==
    {"JSONDecodeError" : n \in {x \in FindLatestOpened(d, m) : Corrupt(m[x])}}
    \cup {"KeyError" : n \in {x \in FindLatestOpened(d, m) :
                                 ~Corrupt(m[x]) /\ ~HasKey(m[x].obj, "latest")}}

\* the paths appended: latest is True
FindLatestPaths(d, m) ==
    {Join(d, n) : n \in {x \in FindLatestOpened(d, m) :
                            /\ ~Corrupt(m[x])
                            /\ HasKey(m[x].obj, "latest")
                            /\ Get(m[x].obj, "latest") = TRUE}}

(***************************************************************************)
(* compare_latest(dir, latest_filepaths): latest_updates.py lines 27-55.   *)
(***************************************************************************)
InboundDir(d) == Join(d, <<"t", "e", "m", "p">>)

\* fp.split(inbound_dir)[-1].lstrip("/")
StripDir(path, d) == LStrip(SplitLast(path, d), "/")

RECURSIVE InnerHitsAtLeast(_, _, _)
\* compare_latest with fuzz.ratio(fp, lf) >= 75
InnerHitsAtLeast(fp, d, lfs) ==
    IF lfs = <<>> THEN <<>>
    ELSE LET lf == StripDir(Head(lfs), d)
         IN  (IF RatioAbove(fp, lf, Threshold) \/ RatioIs(fp, lf, Threshold)
              THEN << <<fp, lf>> >> ELSE <<>>)
             \o InnerHitsAtLeast(fp, d, Tail(lfs))

RECURSIVE InnerHits(_, _, _)
\* the inner loop: the <<fp, lf>> pairs appended for one inbound name
InnerHits(fp, d, lfs) ==
    IF lfs = <<>> THEN <<>>
    ELSE LET lf == StripDir(Head(lfs), d)
         IN  (IF RatioAbove(fp, lf, Threshold) THEN << <<fp, lf>> >> ELSE <<>>)
             \o InnerHits(fp, d, Tail(lfs))

RECURSIVE HitsFirstInbound(_, _, _)
\* compare_latest leaving the outer loop at the first inbound name that matched
HitsFirstInbound(d, fps, lfs) ==
    IF fps = <<>> THEN <<>>
    ELSE LET h == InnerHits(StripDir(Join(InboundDir(d), Head(fps)), InboundDir(d)), d, lfs)
         IN  IF h # <<>> THEN h ELSE HitsFirstInbound(d, Tail(fps), lfs)

RECURSIVE Hits(_, _, _)
\* the outer loop over the inbound paths, in the order the glob yields them
Hits(d, fps, lfs) ==
    IF fps = <<>> THEN <<>>
    ELSE InnerHits(StripDir(Join(InboundDir(d), Head(fps)), InboundDir(d)), d, lfs)
         \o Hits(d, Tail(fps), lfs)

\* compare_latest returning its lists as appended
ListAsAppended(xs) == {xs}

\* list(set(xs)): the distinct elements, in any order
ListOfSet(xs) == Orders(Distinct(xs))

Column(pairs, c) == [i \in 1..Len(pairs) |-> pairs[i][c]]

(***************************************************************************)
(* unflag_former_latest(dir, former_latest): latest_updates.py lines 58-75 *)
(***************************************************************************)
\* the loop body writing back the flag alone
UnflaggedFlagOnly(file) == DumpIndent4(<< <<"latest", FALSE>> >>)

\* the body of the loop for one record
Unflagged(file) == DumpIndent4(SetKey(file.obj, "latest", FALSE))

RECURSIVE UnflagFrom(_, _, _)
\* the loop from names onwards: the records after it and the exception, if any
UnflagFrom(d, m, names) ==
    IF names = <<>> THEN [fs |-> m, err |-> "none"]
    ELSE LET fl == Head(names)
         IN  IF fl \notin DOMAIN m THEN [fs |-> m, err |-> "FileNotFoundError"]
             ELSE IF Corrupt(m[fl]) THEN [fs |-> m, err |-> "JSONDecodeError"]
             ELSE UnflagFrom(d, Written(m, fl, Unflagged(m[fl])), Tail(names))

(***************************************************************************)
(* update_split_documents(split_dir, former_latest): lines 78-99.          *)
(***************************************************************************)
\* update_split_documents globbing f"{base_name[:60]}_*.json"
SplitDocsUnderscore(sp, fl) ==
    {n \in DOMAIN sp :
        GlobPrefixJson(n, Take(Remove(fl, DotJson), PrefixLen) \o <<"_">>)}

\* glob(f"{split_dir}/{base_name[:60]}*.json") for one name
SplitDocs(sp, fl) ==
    {n \in DOMAIN sp : GlobPrefixJson(n, Take(Remove(fl, DotJson), PrefixLen))}

UnflagAll(sp, G) == [n \in DOMAIN sp |-> IF n \in G THEN Unflagged(sp[n]) ELSE sp[n]]

RECURSIVE UpdateFrom(_, _)
\* the possible outcomes of the loop from names onwards; a corrupt section file
\* stops it after any of the other matched files have been rewritten
UpdateFrom(sp, names) ==
    IF names = <<>> THEN {[fs |-> sp, err |-> "none"]}
    ELSE LET G == SplitDocs(sp, Head(names))
             bad == {n \in G : Corrupt(sp[n])}
         IN  IF bad = {} THEN UpdateFrom(UnflagAll(sp, G), Tail(names))
             ELSE {[fs |-> UnflagAll(sp, P), err |-> "JSONDecodeError"] :
                      P \in SUBSET (G \ bad)}

(***************************************************************************)
(* PrepareVectorStore._json_splitter: preprocess.py lines 106-145.         *)
(***************************************************************************)
Digits == <<"0", "1", "2", "3", "4", "5", "6", "7", "8", "9">>

RECURSIVE Str(_)
\* str(n) of a natural number
Str(n) == IF n < 10 THEN <<Digits[n + 1]>> ELSE Str(n \div 10) \o <<Digits[(n % 10) + 1]>>

\* f"{id}_{num}.json"
SectionName(id, num) == id \o <<"_">> \o Str(num) \o DotJson

RECURSIVE SplitSections(_, _, _, _, _)
\* the loop over enumerate(content); a section without page_text raises the
\* KeyError that ends the work on this publication
SplitSections(sp, id, meta, content, num) ==
    IF content = <<>> THEN sp
    ELSE LET section == Head(content)
             section_json == Merge(section, meta)
         IN  IF ~HasKey(section, "page_text") THEN sp
             ELSE SplitSections(
                      IF Len(Get(section, "page_text")) > MinTextLen
                      THEN Written(sp, SectionName(id, num), DumpIndent4(section_json))
                      ELSE sp,
                      id, meta, Tail(content), num + 1)

\* the try block for one publication; every KeyError is caught and logged
SplitOne(sp, obj, latest_only) ==
    IF latest_only /\ ~HasKey(obj, "latest") THEN sp
    ELSE IF latest_only /\ Get(obj, "latest") # TRUE THEN sp
    ELSE IF ~HasKey(obj, "id") \/ ~HasKey(obj, "content") THEN sp
    ELSE SplitSections(sp, Get(obj, "id"), Without(obj, "content"), Get(obj, "content"), 0)

RECURSIVE SplitterFrom(_, _, _, _)
\* the loop over found_articles in the order given; json.load's error on a
\* corrupt file is not a KeyError and ends the whole run
SplitterFrom(m, sp, order, latest_only) ==
    IF order = <<>> THEN [fs |-> sp, err |-> "none"]
    ELSE IF Corrupt(m[Head(order)]) THEN [fs |-> sp, err |-> "JSONDecodeError"]
    ELSE SplitterFrom(m, SplitOne(sp, m[Head(order)].obj, latest_only), Tail(order), latest_only)

(***************************************************************************)
(* merge_database_files.py lines 39-46: the inbound records are moved into *)
(* the store (Path.rename replaces a record of the same name).             *)
(***************************************************************************)
Moved(m, t) ==
    LET names == {n \in DOMAIN t : GlobJson(n)}
    IN  [main |-> [n \in DOMAIN m \cup names |-> IF n \in names THEN t[n] ELSE m[n]],
         temp |-> Restrict(t, DOMAIN t \ names)]

(***************************************************************************)
(* The documents of the model.                                             *)
(***************************************************************************)
Name(stem) == stem \o DotJson

LongText == <<"K", "e", "n", "y", "a", "!">>

ShortText == <<"K", "e", "n", "y", "a">>

Section(page, text) == << <<"page_number", page>>, <<"page_text", text>> >>

Pub(id, latest, content) == << <<"id", id>>, <<"latest", latest>>, <<"content", content>> >>

PubTitled(id, title, latest, content) ==
    << <<"id", id>>, <<"title", title>>, <<"latest", latest>>, <<"content", content>> >>

\* a record with the year of its release
PubDated(id, release_date, latest, content) ==
    << <<"id", id>>, <<"release_date", release_date>>, <<"latest", latest>>,
       <<"content", content>> >>

\* a record written before the latest flag existed
PubLegacy(id, content) == << <<"id", id>>, <<"content", content>> >>

Compact(obj) == [fmt |-> "compact", obj |-> obj]

NotJson == [fmt |-> "corrupt", obj |-> <<>>]

OnePage == <<Section(1, LongText)>>

TwoPages == <<Section(1, LongText), Section(2, ShortText)>>

abc == <<"a", "b", "c">>
abf == <<"a", "b", "f">>
abcwxyz == <<"a", "b", "c", "w", "x", "y", "z">>
abd == <<"a", "b", "d">>
abe == <<"a", "b", "e">>
ade == <<"a", "d", "e">>
xyz == <<"x", "y", "z">>
old == <<"o", "l", "d">>
bad == <<"b", "a", "d">>
nil == <<"n", "i", "l">>
id123 == <<"1", "2", "3">>
placeholder == <<"a">> \o Zeros
notes == <<"n", "o", "t", "e", "s", ".", "t", "x", "t">>
LongA == Rep("x", LongStemLen - 1) \o <<"a">>
LongB == Rep("x", LongStemLen - 1) \o <<"b">>

Dir1 == <<"d", "/", "m">>
\* a store whose path holds the placeholder token
Dir2 == Zeros \o <<"/", "m">>

NoFiles == [n \in {} |-> NotJson]

File1(n, f) == [x \in {n} |-> f]

\* the union of two listings with different names
Both(f, g) == [x \in DOMAIN f \cup DOMAIN g |-> IF x \in DOMAIN f THEN f[x] ELSE g[x]]

Indented(name, obj) == File1(name, DumpIndent4(obj))

Scenarios ==
    { \* one existing latest publication, one inbound revision
      [dir |-> Dir1,
       main |-> File1(Name(abc), Compact(PubTitled(abc, abc, TRUE, TwoPages))),
       temp |-> File1(Name(abd), Compact(Pub(abd, TRUE, OnePage))),
       split |-> NoFiles],
      \* the same with an id that is not the file name's stem
      [dir |-> Dir1,
       main |-> File1(Name(abc), Compact(Pub(id123, TRUE, OnePage))),
       temp |-> File1(Name(abd), Compact(Pub(abd, TRUE, OnePage))),
       split |-> NoFiles],
      \* two existing latest publications that both inbound revisions match, and
      \* an unrelated third whose name starts with the name of the first
      [dir |-> Dir1,
       main |-> Both(Indented(Name(abc), Pub(abc, TRUE, OnePage)),
                Both(Indented(Name(abf), Pub(abf, TRUE, OnePage)),
                     Indented(Name(abcwxyz), Pub(abcwxyz, TRUE, OnePage)))),
       temp |-> Both(Indented(Name(abd), Pub(abd, TRUE, OnePage)),
                     Indented(Name(abe), Pub(abe, TRUE, OnePage))),
       split |-> NoFiles],
      \* a store path holding the placeholder token; an inbound name at ratio 75
      \* exactly, a placeholder record, a record not latest and a non-JSON file
      [dir |-> Dir2,
       main |-> Both(Indented(Name(abc), Pub(abc, TRUE, OnePage)),
                Both(Indented(Name(placeholder), Pub(placeholder, TRUE, OnePage)),
                Both(Indented(Name(xyz), Pub(xyz, FALSE, OnePage)),
                     Indented(notes, Pub(notes, TRUE, <<>>))))),
       temp |-> Indented(Name(ade), Pub(ade, TRUE, OnePage)),
       split |-> NoFiles],
      \* names longer than the prefix bound, no inbound document
      [dir |-> Dir1,
       main |-> Both(Indented(Name(LongA), Pub(LongA, TRUE, OnePage)),
                     Indented(Name(LongB), Pub(LongB, TRUE, OnePage))),
       temp |-> NoFiles,
       split |-> NoFiles],
      \* a legacy record without the latest key
      [dir |-> Dir1,
       main |-> Both(Indented(Name(abc), Pub(abc, TRUE, OnePage)),
                     Indented(Name(old), PubLegacy(old, OnePage))),
       temp |-> Indented(Name(abd), Pub(abd, FALSE, OnePage)),
       split |-> NoFiles],
      \* a record and a section file that are not JSON
      [dir |-> Dir1,
       main |-> Both(Indented(Name(abc), Pub(abc, TRUE, OnePage)),
                     File1(Name(bad), NotJson)),
       temp |-> NoFiles,
       split |-> File1(SectionName(abc, 7), NotJson)],
      \* an inbound edition released before the existing latest one
      [dir |-> Dir1,
       main |-> Indented(Name(abc), PubDated(abc, 2024, TRUE, OnePage)),
       temp |-> Indented(Name(abd), PubDated(abd, 2023, TRUE, OnePage)),
       split |-> NoFiles] }

(***************************************************************************)
(* State.  dir, main, temp and split are the file system: the path of the  *)
(* store and the listings of the store, of its inbound directory dir/temp  *)
(* and of the directory of section files.  built says whether the vector   *)
(* store exists.  latest_filepaths, new_latest and former_latest hold what *)
(* find_latest and compare_latest last returned, call the last operation   *)
(* and the exception it raised ("none" when it returned).  pass is a       *)
(* history variable: how far a maintenance pass (find_latest,              *)
(* compare_latest, unflag_former_latest, update_split_documents, move of   *)
(* the inbound records) has got, and the file system it started from.      *)
(***************************************************************************)
VARIABLES dir, main, temp, split, built, latest_filepaths, new_latest, former_latest,
          call, pass

(***************************************************************************)
(* The fragment locator: db_dict is the dictionary view of the vector      *)
(* store handed to find_matching_chunks, docs the list of document names   *)
(* it was last called with and matched_chunks what it returned.            *)
(***************************************************************************)
VARIABLES db_dict, docs, matched_chunks

(***************************************************************************)
(* The query path: db is what the vector store holds that is near the      *)
(* question, nearest first; asked the arguments of the last make_query;    *)
(* reranked the list make_query handed to query_texts; input_documents the *)
(* documents query_texts handed to the language model, llm_raw what the    *)
(* model gave back and llm_calls how often it was invoked; returned what   *)
(* the last call returned; enhanced what process_question made of it.      *)
(***************************************************************************)
VARIABLES db, asked, reranked, input_documents, llm_raw, llm_calls, returned, enhanced

(***************************************************************************)
(* The vector stores on disk: faiss maps the path of every store directory *)
(* that exists to its files and their contents.                            *)
(***************************************************************************)
VARIABLES faiss

(***************************************************************************)
(* The memo of make_query: cache holds the entries of lru_cache, the least *)
(* recently used first; searches counts the similarity searches and served *)
(* is a history variable: the calls made so far, each with whether it was  *)
(* answered from the memo and with the call that computed its result.      *)
(***************************************************************************)
VARIABLES cache, searches, served

(***************************************************************************)
(* Concurrent propagations: runs holds, for every running call of          *)
(* unflag_former_latest, its names, its place in them and what it holds.   *)
(***************************************************************************)
VARIABLES runs

store_vars == <<dir, main, temp, split, built, latest_filepaths, new_latest, former_latest,
                call, pass>>

locator_vars == <<db_dict, docs, matched_chunks>>

query_vars == <<db, asked, reranked, input_documents, llm_raw, llm_calls, returned, enhanced>>

build_vars == <<faiss>>

cache_vars == <<cache, searches, served>>

race_vars == <<runs>>

\* everything but the store
other_vars == <<locator_vars, query_vars, build_vars, cache_vars, race_vars>>

vars == <<store_vars, other_vars>>

\* nothing has been asked of the locator / of the inquirer
LocatorIdle == db_dict = <<>> /\ docs = <<>> /\ matched_chunks = <<>>

NotAsked == [op |-> "none"]

QueryIdle ==
    /\ db = <<>>
    /\ asked = NotAsked
    /\ reranked = <<>>
    /\ input_documents = <<>>
    /\ llm_raw = <<>>
    /\ llm_calls = 0
    /\ returned = NotAsked
    /\ enhanced = NotAsked

\* no vector store on disk
NoStores == [r \in {} |-> NoFiles]

BuildIdle == faiss = NoStores

CacheIdle == cache = <<>> /\ searches = 0 /\ served = <<>>

RaceIdle == runs = <<>>

FileSystem == [main |-> main, temp |-> temp, split |-> split]

NoFileSystem == [main |-> NoFiles, temp |-> NoFiles, split |-> NoFiles]

NoPass == [stage |-> "none", pre |-> NoFileSystem]

\* no maintenance pass has started
Idle == pass.stage = "none"

Init ==
    /\ \E sc \in Scenarios :
          /\ dir = sc.dir
          /\ main = sc.main
          /\ temp = sc.temp
          /\ split = sc.split
    /\ built = FALSE
    /\ latest_filepaths = <<>>
    /\ new_latest = <<>>
    /\ former_latest = <<>>
    /\ call = [op |-> "none", err |-> "none"]
    /\ pass = NoPass
    /\ LocatorIdle
    /\ QueryIdle
    /\ BuildIdle
    /\ CacheIdle
    /\ RaceIdle

\* the lists of names a caller can hand to the two propagation functions
NameLists ==
    LET names == DOMAIN main \cup {Name(nil)}
    IN  UNION {[1..n -> names] : n \in 0..MaxNames}

\* latest_filepaths = find_latest(dir)
FindLatest ==
    /\ Idle
    /\ FindLatestErrors(dir, main) = {}
    /\ latest_filepaths' \in Orders(FindLatestPaths(dir, main))
    /\ call' = [op |-> "find_latest", err |-> "none"]
    /\ pass' = [stage |-> "found", pre |-> FileSystem]
    /\ UNCHANGED <<other_vars, dir, main, temp, split, built, new_latest, former_latest>>

\* find_latest(dir) raising
FindLatestRaises ==
    /\ Idle
    /\ \E e \in FindLatestErrors(dir, main) : call' = [op |-> "find_latest", err |-> e]
    /\ pass' = NoPass
    /\ UNCHANGED <<other_vars, dir, main, temp, split, built, latest_filepaths, new_latest,
                   former_latest>>

\* new_latest, former_latest = compare_latest(dir, latest_filepaths)
CompareLatest ==
    /\ pass.stage = "found"
    /\ \E fps \in Orders({n \in DOMAIN temp : GlobJson(n)}) :
          LET hits == Hits(dir, fps, latest_filepaths)
          IN  /\ new_latest' \in ListOfSet(Column(hits, 1))
              /\ former_latest' \in ListOfSet(Column(hits, 2))
    /\ call' = [op |-> "compare_latest", err |-> "none"]
    /\ pass' = [pass EXCEPT !.stage = "compared"]
    /\ UNCHANGED <<other_vars, dir, main, temp, split, built, latest_filepaths>>

\* unflag_former_latest(dir, names), with the stage the pass is in afterwards
UnflagFormerLatest(names, stage) ==
    LET out == UnflagFrom(dir, main, names)
    IN  /\ main' = out.fs
        /\ call' = [op |-> "unflag_former_latest", err |-> out.err]
        /\ pass' = IF out.err = "none" /\ stage # "none"
                   THEN [pass EXCEPT !.stage = stage] ELSE NoPass
        /\ UNCHANGED <<other_vars, dir, temp, split, built, latest_filepaths, new_latest,
                       former_latest>>

\* update_split_documents(split_dir, names)
UpdateSplitDocuments(names, stage) ==
    /\ \E out \in UpdateFrom(split, names) :
          /\ split' = out.fs
          /\ call' = [op |-> "update_split_documents", err |-> out.err]
          /\ pass' = IF out.err = "none" /\ stage # "none"
                     THEN [pass EXCEPT !.stage = stage] ELSE NoPass
    /\ UNCHANGED <<other_vars, dir, main, temp, built, latest_filepaths, new_latest, former_latest>>

\* PrepareVectorStore(latest_only=...): the section files are written when the
\* vector store does not exist yet (preprocess.py line 53)
JsonSplitter(latest_only) ==
    /\ Idle
    /\ ~built
    /\ \E order \in Orders({n \in DOMAIN main : GlobJson(n)}) :
          LET out == SplitterFrom(main, split, order, latest_only)
          IN  /\ split' = out.fs
              /\ built' = (out.err = "none")
              /\ call' = [op |-> "_json_splitter", err |-> out.err]
    /\ pass' = NoPass
    /\ UNCHANGED <<other_vars, dir, main, temp, latest_filepaths, new_latest, former_latest>>

\* the inbound records join the store, once the pass has unflagged
MergeInbound ==
    /\ pass.stage \in {"unflagged", "updated"}
    /\ DOMAIN temp # {}
    /\ main' = Moved(main, temp).main
    /\ temp' = Moved(main, temp).temp
    /\ call' = [op |-> "merge", err |-> "none"]
    /\ pass' = [pass EXCEPT !.stage = "merged"]
    /\ UNCHANGED <<other_vars, dir, split, built, latest_filepaths, new_latest, former_latest>>

\* the steps of a maintenance pass that propagate its result
PassUnflag == pass.stage = "compared" /\ UnflagFormerLatest(former_latest, "unflagged")

PassUpdate == pass.stage = "unflagged" /\ UpdateSplitDocuments(former_latest, "updated")

\* the two functions called on their own, on any list of names, on a store that
\* no pass and no earlier call has rewritten
DirectUnflag ==
    /\ Idle
    /\ call.op \in {"none", "_json_splitter"}
    /\ \E names \in NameLists : UnflagFormerLatest(names, "none")

DirectUpdate ==
    /\ Idle
    /\ call.op \in {"none", "_json_splitter"}
    /\ \E names \in NameLists : UpdateSplitDocuments(names, "none")

Next ==
    \/ FindLatest
    \/ FindLatestRaises
    \/ CompareLatest
    \/ PassUnflag
    \/ PassUpdate
    \/ DirectUnflag
    \/ DirectUpdate
    \/ \E latest_only \in BOOLEAN : JsonSplitter(latest_only)
    \/ MergeInbound

Spec == Init /\ [][Next]_vars

\* the store as the locator and the inquirer leave it: they never touch it
StoreIdle ==
    /\ dir = Dir1
    /\ main = NoFiles
    /\ temp = NoFiles
    /\ split = NoFiles
    /\ built = FALSE
    /\ latest_filepaths = <<>>
    /\ new_latest = <<>>
    /\ former_latest = <<>>
    /\ call = [op |-> "none", err |-> "none"]
    /\ pass = NoPass

(***************************************************************************)
(* find_matching_chunks(db_dict, docs): latest_updates.py lines 102-116.   *)
(* db_dict is a sequence of <<key, source>> pairs, source being            *)
(* db_dict[key].metadata["source"].                                        *)
(***************************************************************************)
\* find_matching_chunks testing whether the source starts with doc[:60]
ChunksOfAtStart(dct, doc) ==
    LET hit == SelectSeq(dct, LAMBDA kv : StartsWith(kv[2], Take(doc, PrefixLen)))
    IN  [i \in 1..Len(hit) |-> hit[i][1]]

\* the inner loop: the keys k, in the order of db_dict.keys(), with
\* doc[:60] in db_dict[k].metadata["source"]
ChunksOf(dct, doc) ==
    LET hit == SelectSeq(dct, LAMBDA kv : Contains(kv[2], Take(doc, PrefixLen)))
    IN  [i \in 1..Len(hit) |-> hit[i][1]]

RECURSIVE MatchedChunks(_, _)
\* the outer loop over docs
MatchedChunks(dct, names) ==
    IF names = <<>> THEN <<>>
    ELSE ChunksOf(dct, Head(names)) \o MatchedChunks(dct, Tail(names))

\* metadata["source"] = metadata.pop("id") (preprocess.py line 166): the source
\* of a chunk is the id of the publication its section came from
SourceOf(id) == id

\* vector stores as find_matching_chunks sees them
Stores ==
    { <<>>,
      \* two sections of one publication and a section of another
      << <<"k1", SourceOf(abc)>>, <<"k2", SourceOf(abc)>>, <<"k3", SourceOf(abd)>> >>,
      \* two publications whose ids share their first 60 characters
      << <<"k1", SourceOf(LongA)>>, <<"k2", SourceOf(LongB)>>, <<"k3", SourceOf(abc)>> >>,
      \* a publication whose id is its file name, one whose id holds a long name
      << <<"k1", SourceOf(Name(abc))>>, <<"k2", SourceOf(<<"y">> \o LongA)>> >> }

\* the document names find_matching_chunks is called with: file names of
\* publications, short and long, a name without ".json", the empty name
DocNames == {Name(abc), Name(nil), Name(LongA), Name(LongB), abc, <<>>}

DocLists == UNION {[1..n -> DocNames] : n \in 0..MaxNames}

InitLocator ==
    /\ StoreIdle
    /\ QueryIdle
    /\ BuildIdle
    /\ CacheIdle
    /\ RaceIdle
    /\ db_dict \in Stores
    /\ docs = <<>>
    /\ matched_chunks = <<>>

\* matched_chunks = find_matching_chunks(db_dict, docs)
FindMatchingChunks ==
    /\ \E names \in DocLists :
          /\ docs' = names
          /\ matched_chunks' = MatchedChunks(db_dict, names)
    /\ UNCHANGED <<store_vars, query_vars, build_vars, cache_vars, race_vars, db_dict>>

NextLocator == FindMatchingChunks

SpecLocator == InitLocator /\ [][NextLocator]_vars

(***************************************************************************)
(* Inquirer: cloud_llm_openrouter.py.  Scores are distances counted in     *)
(* thousandths, so that 0.5 is 500 and round(score, 2) gives a multiple of *)
(* 10.                                                                     *)
(***************************************************************************)
\* the defaults of Inquirer.__init__ (lines 29-37)
k_docs == 10
k_contexts == 3
\* similarity_threshold: float = 2.0
similarity_threshold == 2000
\* answer_threshold: float = 0.5
answer_threshold == 500
\* document_threshold: float = 0.9
document_threshold == 900

\* str.lower() of one character, for the letters the arguments use
LowerChar(c) ==
    CASE c = "O" -> "o"
      [] c = "N" -> "n"
      [] c = "F" -> "f"
      [] c = "T" -> "t"
      [] c = "R" -> "r"
      [] c = "U" -> "u"
      [] c = "E" -> "e"
      [] OTHER -> c

\* s.lower()
Lower(s) == [i \in 1..Len(s) |-> LowerChar(s[i])]

\* latest_filter.lower() in ["on", "true"] (line 185)
LatestFilterOn(latest_filter) ==
    Lower(latest_filter) \in {<<"o", "n">>, <<"t", "r", "u", "e">>}

\* similarity_search returning what the store holds, without the threshold
SimilaritySearchUnfiltered(store, latest_filter) ==
    Take(IF latest_filter THEN SelectSeq(store, LAMBDA x : x.latest) ELSE store, k_docs)

\* similarity_search (lines 100-105): the k_docs nearest chunks of db_latest or
\* db, those within similarity_threshold; db_latest holds the latest chunks
SimilaritySearch(store, latest_filter) ==
    LET top_matches == Take(IF latest_filter THEN SelectSeq(store, LAMBDA x : x.latest)
                            ELSE store, k_docs)
    IN  SelectSeq(top_matches, LAMBDA x : x.score <= similarity_threshold)

\* keys=["title", "date"] (line 190)
DedupKeysTitle == <<"title">>

DedupKeys == <<"title", "date">>

\* tuple(doc[k] for k in keys)
KeyOf(doc, keys) == [i \in 1..Len(keys) |-> doc[keys[i]]]

RECURSIVE DedupFrom(_, _, _)
DedupFrom(ds, keys, seen) ==
    IF ds = <<>> THEN <<>>
    ELSE IF KeyOf(Head(ds), keys) \in seen THEN DedupFrom(Tail(ds), keys, seen)
    ELSE <<Head(ds)>> \o DedupFrom(Tail(ds), keys, seen \cup {KeyOf(Head(ds), keys)})

\* deduplicator(docs, keys): the first document of every key, in order
Deduplicator(ds, keys) == DedupFrom(ds, keys, {})

\* the year the queries are made in
Today == 2024

\* time_decay(date, latest): 1 for a document of this year, growing with the
\* age of the document and with the weight
TimeDecay(date, latest) == 1 + latest * Max(Today - date, 0)

\* a.score / a.decay <= b.score / b.decay
NotAfter(a, b) == a.doc.score * b.decay <= b.doc.score * a.decay

RECURSIVE Inserted(_, _)
\* x put behind every element that is not after it
Inserted(sorted, x) ==
    IF sorted = <<>> THEN <<x>>
    ELSE IF NotAfter(Head(sorted), x) THEN <<Head(sorted)>> \o Inserted(Tail(sorted), x)
    ELSE <<x>> \o sorted

\* the list left in the order of the search
Unsorted(ds) == ds

RECURSIVE SortedByScore(_)
\* docs.sort(key=lambda doc: doc["score"]): stable
SortedByScore(ds) ==
    IF ds = <<>> THEN <<>>
    ELSE Inserted(SortedByScore(SubSeq(ds, 1, Len(ds) - 1)), ds[Len(ds)])

\* round(score, 1) where round(score, 2) is meant
Round1(score, decay) ==
    LET unit == 100 * decay
        q == score \div unit
        r == score % unit
    IN  IF 2 * r < unit THEN {100 * q}
        ELSE IF 2 * r > unit THEN {100 * (q + 1)}
        ELSE {100 * q, 100 * (q + 1)}

\* round(score / decay, 2): the nearest hundredth; a value halfway between two
\* hundredths goes either way, as its binary representation decides
Round2(score, decay) ==
    LET unit == 10 * decay
        q == score \div unit
        r == score % unit
    IN  IF 2 * r < unit THEN {10 * q}
        ELSE IF 2 * r > unit THEN {10 * (q + 1)}
        ELSE {10 * q, 10 * (q + 1)}

\* lines 192-199: the documents weighted, sorted and rounded; the lists that
\* can come out.  round is a function that never decreases: of two quotients
\* the one not greater is rounded to a value not greater
Reranked(ds, latest_weight) ==
    LET weighted == [i \in 1..Len(ds) |->
                        [doc |-> ds[i],
                         decay |-> IF latest_weight > 0
                                   THEN TimeDecay(ds[i].date, latest_weight) ELSE 1]]
        ordered == IF latest_weight > 0 THEN SortedByScore(weighted) ELSE weighted
        n == Len(ordered)
        scores == {r \in [1..n -> UNION {Round2(ordered[i].doc.score, ordered[i].decay) :
                                            i \in 1..n}] :
                      /\ \A i \in 1..n :
                            r[i] \in Round2(ordered[i].doc.score, ordered[i].decay)
                      /\ \A i, j \in 1..n :
                            NotAfter(ordered[i], ordered[j]) => r[i] <= r[j]}
    IN  {[i \in 1..n |-> [ordered[i].doc EXCEPT !.score = r[i]]] : r \in scores}

\* LlmResponse(...): the response schema, with the defaults of the fields that
\* are not given (most_likely_answer "", the lists empty, no reasoning)
LlmResponse(answer_provided, most_likely_answer, h1, h2, h3, reasoning) ==
    [answer_provided |-> answer_provided,
     most_likely_answer |-> most_likely_answer,
     highlighting1 |-> h1,
     highlighting2 |-> h2,
     highlighting3 |-> h3,
     reasoning |-> reasoning]

\* LlmResponse(answer_provided=False) (line 188), and with the three empty
\* lists named (line 120)
NoAnswer == LlmResponse(FALSE, "", <<>>, <<>>, <<>>, <<>>)

\* a field of the parsed object, or the default of the schema
Field(obj, k, default) == IF HasKey(obj, k) THEN Get(obj, k) ELSE default

\* parser.parse(text): the text must be JSON and fit the schema, whose only
\* required field is the boolean answer_provided
Parse(text) ==
    IF text.fmt = "corrupt" THEN [ok |-> FALSE, e |-> "Invalid json output"]
    ELSE IF ~HasKey(text.obj, "answer_provided")
    THEN [ok |-> FALSE, e |-> "answer_provided: field required"]
    ELSE IF Get(text.obj, "answer_provided") \notin BOOLEAN
    THEN [ok |-> FALSE, e |-> "answer_provided: not a valid boolean"]
    ELSE [ok |-> TRUE,
          value |-> LlmResponse(Get(text.obj, "answer_provided"),
                                Field(text.obj, "most_likely_answer", ""),
                                Field(text.obj, "highlighting1", <<>>),
                                Field(text.obj, "highlighting2", <<>>),
                                Field(text.obj, "highlighting3", <<>>),
                                Field(text.obj, "reasoning", <<>>))]

\* lines 145-150: what is parsed; parser.parse of the response dict itself
\* raises, as the dict is not text
Validated(response) ==
    IF HasKey(response, "output_text") THEN Parse(Get(response, "output_text"))
    ELSE IF HasKey(response, "properties") THEN Parse(Get(response, "properties"))
    ELSE [ok |-> FALSE, e |-> "expected string or bytes-like object"]

\* the except branch returning LlmResponse(answer_provided=False) alone
ParseFailureBare(e, response) == NoAnswer

\* the except branch (lines 151-160)
ParseFailure(e, response) ==
    LlmResponse(FALSE, "", <<>>, <<>>, <<>>,
                <<"Cannot parse response: ", e, "\n\nresponse: ", response>>)

\* Document(page_content=..., metadata={doc_num, date, title})
Document(text, i) ==
    [page_content |-> text.page_content,
     metadata |-> [doc_num |-> i, date |-> text.date, title |-> text.title]]

\* query_texts passing on every document within 1.5 x the best score
TopMatchesUncut(ds) ==
    SelectSeq([i \in 1..Len(ds) |-> Document(ds[i], i)],
              LAMBDA d : 2 * ds[d.metadata.doc_num].score <= 3 * ds[1].score)

\* lines 122-129: of docs[:k_contexts], the documents with
\* score <= 1.5 * docs[0]["score"]
TopMatches(ds) ==
    SelectSeq([i \in 1..Len(Take(ds, k_contexts)) |-> Document(ds[i], i)],
              LAMBDA d : 2 * ds[d.metadata.doc_num].score <= 3 * ds[1].score)

\* query_texts(query, docs) when the chain returns response: what it returns,
\* whether the language model was invoked and with which documents
QueryTexts(ds, response) ==
    IF ds = <<>> THEN [validated |-> NoAnswer, called |-> FALSE, input |-> <<>>]
    ELSE LET parsed == Validated(response)
         IN  [validated |-> IF parsed.ok THEN parsed.value
                            ELSE ParseFailure(parsed.e, response),
              called |-> TRUE,
              input |-> TopMatches(ds)]

\* highlighter(docs, validated_response): every document annotated with the
\* spans of the response, order and scores as they were
Highlighter(ds, validated_response) ==
    [i \in 1..Len(ds) |->
        [title |-> ds[i].title, date |-> ds[i].date, score |-> ds[i].score,
         latest |-> ds[i].latest, page_content |-> ds[i].page_content,
         highlighting |-> validated_response.highlighting1]]

\* the gate giving "" where the fallback text is due
FallbackEmpty == <<>>

\* the fallback text (lines 210-213) and the synthesized text (lines 215-220),
\* as the pieces that are concatenated; "" has no piece
Fallback ==
    <<"No suitable answer found. However relevant information may be found in a PDF. ",
      "Please check the link(s) provided.">>

Synthesized(most_likely_answer) ==
    <<"Most relevant quote from publications below: ",
      "<h4 class=\"ons-u-fs-xxl\"> <div id=\"answer\">",
      most_likely_answer,
      "</div> </h4>">>

\* the answer gate with a threshold above document_threshold
AnswerStrAboveDocuments(validated_response, ds) ==
    IF validated_response.answer_provided = FALSE \/ ds[1].score > 2 * answer_threshold
    THEN Fallback
    ELSE Synthesized(validated_response.most_likely_answer)

\* the answer gate taking a top score equal to answer_threshold for too high
AnswerStrAtLeast(validated_response, ds) ==
    IF validated_response.answer_provided = FALSE \/ ds[1].score >= answer_threshold
    THEN Fallback
    ELSE Synthesized(validated_response.most_likely_answer)

\* lines 209-220
AnswerStr(validated_response, ds) ==
    IF validated_response.answer_provided = FALSE \/ ds[1].score > answer_threshold
    THEN Fallback
    ELSE Synthesized(validated_response.most_likely_answer)

\* a document that is a plain string
Text(str) == [str |-> str]

\* lines 224-227
Placeholders ==
    <<Text("No suitable PDFs found. Please refer to context"),
      Text("No context available. Please refer to response")>>

\* the document gate comparing with answer_threshold
DocumentGateAtAnswer(ds) ==
    IF ds[1].score > answer_threshold THEN Placeholders ELSE ds

\* lines 222-227
DocumentGate(ds) ==
    IF ds[1].score > document_threshold THEN Placeholders ELSE ds

\* a chunk of the vector store as similarity_search returns it: the metadata of
\* its section, the year of its date, its text and its distance to the question
Chunk(title, date, score, latest, page_content) ==
    [title |-> title, date |-> date, score |-> score, latest |-> latest,
     page_content |-> page_content]

\* two sections of one publication, an older edition of it at the distance of
\* one of them, publications of other years, a distance halfway between two
\* hundredths, distances beyond each of the thresholds
Chunks ==
    {Chunk("A", 2024, 125, TRUE, "p1"),
     Chunk("A", 2024, 300, TRUE, "p2"),
     Chunk("A", 2022, 300, FALSE, "p7"),
     Chunk("B", 2022, 450, TRUE, "p3"),
     Chunk("B", 2023, 505, FALSE, "p4"),
     Chunk("C", 2024, 950, TRUE, "p5"),
     Chunk("C", 2021, 2500, FALSE, "p6")}

\* what the store can hold near the question: chunks in ascending distance
Indexes ==
    {f \in UNION {[1..n -> Chunks] : n \in 0..MaxHits} :
        \A i, j \in 1..Len(f) : i < j => f[i] # f[j] /\ f[i].score <= f[j].score}

\* the text the language model can give back
Answered ==
    [fmt |-> "json",
     obj |-> << <<"answer_provided", TRUE>>, <<"most_likely_answer", "4.2%">>,
                <<"highlighting1", <<"4.2%">> >> >>]

Declined == [fmt |-> "json", obj |-> << <<"answer_provided", FALSE>> >>]

Flagless == [fmt |-> "json", obj |-> << <<"most_likely_answer", "4.2%">> >>]

Bare == [fmt |-> "json", obj |-> << <<"answer_provided", TRUE>> >>]

Garbled == [fmt |-> "corrupt", obj |-> <<>>]

\* what chain.invoke can return
LlmOutputs ==
    {<< <<"output_text", t>> >> : t \in {Answered, Declined, Flagless, Bare, Garbled}}
    \cup {<< <<"properties", Answered>> >>, << <<"result", Answered>> >>}

\* the arguments of make_query
Filters == {<<"o", "n">>, <<"o", "f", "f">>, <<"T", "r", "u", "e">>}

Weights == {0, 1, 2}

InitQuery ==
    /\ StoreIdle
    /\ LocatorIdle
    /\ BuildIdle
    /\ CacheIdle
    /\ RaceIdle
    /\ db \in Indexes
    /\ asked = NotAsked
    /\ reranked = <<>>
    /\ input_documents = <<>>
    /\ llm_raw = <<>>
    /\ llm_calls = 0
    /\ returned = NotAsked
    /\ enhanced = NotAsked

\* the body of make_query (lines 184-229) on the chunks store holds near the
\* question, the chain returning response when it is invoked: what it can
\* return, with the list it handed to query_texts, the documents query_texts
\* handed to the language model and whether the model was invoked
MakeQueryOutcomes(store, latest_filter, highlighting, latest_weight, response) ==
    LET docs1 == SimilaritySearch(store, LatestFilterOn(latest_filter))
    IN  IF docs1 = <<>>
        THEN {[reranked |-> <<>>, input |-> <<>>, called |-> FALSE,
               result |-> [op |-> "make_query", documents |-> docs1,
                           answer_str |-> <<>>, validated_response |-> NoAnswer]]}
        ELSE {LET out == QueryTexts(ds, response)
                  shown == IF highlighting THEN Highlighter(ds, out.validated) ELSE ds
              IN  [reranked |-> ds, input |-> out.input, called |-> TRUE,
                   result |-> [op |-> "make_query",
                               documents |-> DocumentGate(shown),
                               answer_str |-> AnswerStr(out.validated, shown),
                               validated_response |-> out.validated]] :
                 ds \in Reranked(Deduplicator(docs1, DedupKeys), latest_weight)}

\* make_query(question, latest_filter, highlighting, latest_weight), the first
\* call of the process
MakeQuery ==
    /\ asked = NotAsked
    /\ \E latest_filter \in Filters, highlighting \in BOOLEAN, latest_weight \in Weights,
          response \in LlmOutputs :
          \E o \in MakeQueryOutcomes(db, latest_filter, highlighting, latest_weight, response) :
             /\ asked' = [op |-> "make_query", latest_filter |-> latest_filter,
                          highlighting |-> highlighting, latest_weight |-> latest_weight]
             /\ reranked' = o.reranked
             /\ input_documents' = o.input
             /\ llm_raw' = IF o.called THEN response ELSE llm_raw
             /\ llm_calls' = IF o.called THEN llm_calls + 1 ELSE llm_calls
             /\ returned' = o.result
    /\ UNCHANGED <<store_vars, locator_vars, build_vars, cache_vars, race_vars, db, enhanced>>

\* a document as a dictionary: doc.get(k, default)
DocGet(doc, k, default) == IF k \in DOMAIN doc THEN doc[k] ELSE default

\* lines 205-207: max(0.1, min(1.0, 1.0 - score * 0.2)), 0.2 more for the
\* first document, in thousandths
Confidence(doc, i) ==
    LET confidence == Max(100, Min(1000, 1000 - DocGet(doc, "score", 0) \div 5))
    IN  IF i = 1 THEN Min(1000, confidence + 200) ELSE confidence

\* lines 218-231: dict(doc) updated with the derived fields; the documents of
\* the model carry no url, and their titles name no publication type
EnhancedDoc(doc, i, time_period, validated_response) ==
    LET derived ==
           [issuing_organization |-> "Unknown",
            publication_type |-> "Unknown",
            match_reason |-> IF time_period # 0 /\ time_period = DocGet(doc, "date", 0)
                             THEN <<"Date match: ", time_period>>
                             ELSE <<"Content similarity">>,
            confidence_level |-> 10 * ((Confidence(doc, i) + 5) \div 10),
            citation_format |-> <<DocGet(doc, "title", "Unknown"), " (",
                                  DocGet(doc, "date", "n.d."), ")">>,
            time_period_covered |-> DocGet(doc, "date", "Unknown"),
            relevance_score |-> DocGet(doc, "score", 1000),
            key_sections |-> validated_response.highlighting1]
        added == IF i = 1 THEN DOMAIN derived ELSE DOMAIN derived \ {"key_sections"}
    IN  [k \in DOMAIN doc \cup added |-> IF k \in added THEN derived[k] ELSE doc[k]]

\* _enhance_document_metadata(docs, question_request, validated_response):
\* doc.get raises AttributeError on a document that is a string
EnhanceDocumentMetadata(documents, time_period, validated_response) ==
    IF \E i \in 1..Len(documents) : DOMAIN documents[i] = {"str"}
    THEN [op |-> "process_question", err |-> "AttributeError"]
    ELSE [op |-> "process_question", err |-> "none",
          documents |-> [i \in 1..Len(documents) |->
                            EnhancedDoc(documents[i], i, time_period, validated_response)]]

\* the time period extract_context finds in the question: a year, or 0 for none
TimePeriods == {0, 2024}

\* EnhancedInquirer.process_question(inquirer, question_request): make_query
\* with the fields of the request, then the enhancement of its documents
ProcessQuestion ==
    /\ asked = NotAsked
    /\ \E latest_filter \in Filters, highlighting \in BOOLEAN, latest_weight \in Weights,
          response \in LlmOutputs, time_period \in TimePeriods :
          \E o \in MakeQueryOutcomes(db, latest_filter, highlighting, latest_weight, response) :
             /\ asked' = [op |-> "make_query", latest_filter |-> latest_filter,
                          highlighting |-> highlighting, latest_weight |-> latest_weight]
             /\ reranked' = o.reranked
             /\ input_documents' = o.input
             /\ llm_raw' = IF o.called THEN response ELSE llm_raw
             /\ llm_calls' = IF o.called THEN llm_calls + 1 ELSE llm_calls
             /\ returned' = o.result
             /\ enhanced' = EnhanceDocumentMetadata(o.result.documents, time_period,
                                                    o.result.validated_response)
    /\ UNCHANGED <<store_vars, locator_vars, build_vars, cache_vars, race_vars, db>>

\* query_texts(query, docs) called on its own, on the chunks in any order
QueryTextsDirect ==
    /\ asked = NotAsked
    /\ \E ds \in Orders({db[i] : i \in 1..Len(db)}) : \E response \in LlmOutputs :
          LET out == QueryTexts(ds, response)
          IN  /\ asked' = [op |-> "query_texts"]
              /\ reranked' = ds
              /\ input_documents' = out.input
              /\ llm_raw' = IF out.called THEN response ELSE llm_raw
              /\ llm_calls' = IF out.called THEN llm_calls + 1 ELSE llm_calls
              /\ returned' = [op |-> "query_texts", validated_response |-> out.validated]
    /\ UNCHANGED <<store_vars, locator_vars, build_vars, cache_vars, race_vars, db, enhanced>>

NextQuery ==
    \/ MakeQuery
    \/ QueryTextsDirect
    \/ ProcessQuestion

SpecQuery == InitQuery /\ [][NextQuery]_vars

(***************************************************************************)
(* PrepareVectorStore.__init__: preprocess.py lines 22-104.  A vector      *)
(* store is a directory of two files, index.faiss and index.pkl; a file    *)
(* holds what was embedded, or nothing.                                    *)
(***************************************************************************)
\* the suffix of a store of latest publications (line 41)
LatestSuffix == <<"_", "l", "a", "t", "e", "s", "t">>

\* self.faiss_db_root (line 41)
FaissDbRoot(faiss_db_root, latest_only) ==
    faiss_db_root \o (IF latest_only THEN LatestSuffix ELSE <<>>)

\* latest_db_root = self.faiss_db_root.replace("_latest", "") (line 68)
LatestDbRoot(root) == Remove(root, LatestSuffix)

\* a file that holds no byte
EmptyFile == [kind |-> "empty"]

\* db.save_local(folder): the index and the docstore of the embedded sections
SaveLocal(sections) ==
    [item \in {"index.faiss", "index.pkl"} |-> [kind |-> item, of |-> sections]]

\* the files of directory root, which open(path, "wb") and os.makedirs create
\* when they are missing
Listing(fs, root) == IF root \in DOMAIN fs THEN fs[root] ELSE NoFiles

\* file item of directory root holding data
WrittenTo(fs, root, item, data) ==
    [r \in DOMAIN fs \cup {root} |->
        IF r = root THEN Written(Listing(fs, root), item, data) ELSE fs[r]]

\* lines 98-99: open(source, "rb"), then open(destination, "wb"), which leaves
\* the destination empty, then fdst.write(fsrc.read())
CopyFile(fs, source_root, destination_root, item) ==
    LET opened == WrittenTo(fs, destination_root, item, EmptyFile)
    IN  WrittenTo(opened, destination_root, item, opened[source_root][item])

RECURSIVE CopyItems(_, _, _, _)
\* the loop over os.listdir(self.faiss_db_root) (lines 72-99)
CopyItems(fs, source_root, destination_root, items) ==
    IF items = <<>> THEN fs
    ELSE CopyItems(CopyFile(fs, source_root, destination_root, Head(items)),
                   source_root, destination_root, Tail(items))

\* the faiss_db_root arguments of the model
db_langchain == <<"d", "b">>

FaissDbRoots == {db_langchain, db_langchain \o LatestSuffix}

\* a store built by an earlier run
OldStore == SaveLocal({Name(old)})

\* the stores that can be on disk before the run
StoresOnDisk ==
    LET roots == {FaissDbRoot(r, l) : r \in FaissDbRoots, l \in BOOLEAN}
    IN  UNION {[present -> {OldStore}] : present \in SUBSET roots}

InitBuild ==
    /\ \E sc \in Scenarios :
          /\ dir = sc.dir
          /\ main = sc.main
          /\ temp = sc.temp
          /\ split = sc.split
    /\ built = FALSE
    /\ latest_filepaths = <<>>
    /\ new_latest = <<>>
    /\ former_latest = <<>>
    /\ call = [op |-> "none", err |-> "none"]
    /\ pass = NoPass
    /\ faiss \in StoresOnDisk
    /\ LocatorIdle
    /\ QueryIdle
    /\ CacheIdle
    /\ RaceIdle

\* PrepareVectorStore(faiss_db_root=..., latest_only=...): when the named store
\* exists nothing is done; otherwise the sections are written, loaded and
\* embedded, the store is saved under self.faiss_db_root and then copied
Construct(faiss_db_root, latest_only) ==
    LET root == FaissDbRoot(faiss_db_root, latest_only)
    IN  /\ IF root \in DOMAIN faiss
           THEN /\ call' = [op |-> "PrepareVectorStore", err |-> "none"]
                /\ UNCHANGED <<split, faiss, built>>
           ELSE \E order \in Orders({n \in DOMAIN main : GlobJson(n)}) :
                   LET out == SplitterFrom(main, split, order, latest_only)
                       sections == {n \in DOMAIN out.fs : GlobJson(n)}
                       saved == [r \in DOMAIN faiss \cup {root} |->
                                    IF r = root THEN SaveLocal(sections) ELSE faiss[r]]
                   IN  /\ split' = out.fs
                       /\ call' = [op |-> "PrepareVectorStore", err |-> out.err]
                       /\ built' = (out.err = "none")
                       /\ IF out.err # "none" THEN faiss' = faiss
                          ELSE \E items \in Orders(DOMAIN saved[root]) :
                                  faiss' = CopyItems(saved, root, LatestDbRoot(root), items)
        /\ pass' = NoPass
        /\ UNCHANGED <<locator_vars, query_vars, cache_vars, race_vars, dir, main, temp,
                       latest_filepaths, new_latest, former_latest>>

NextBuild == \E faiss_db_root \in FaissDbRoots, latest_only \in BOOLEAN :
                Construct(faiss_db_root, latest_only)

SpecBuild == InitBuild /\ [][NextBuild]_vars

(***************************************************************************)
(* @lru_cache() on make_query: cloud_llm_openrouter.py line 164.  The key  *)
(* of an entry is made of the arguments as they were passed: the question, *)
(* then every keyword argument with its name.                              *)
(***************************************************************************)
\* make_query(question, latest_filter=..., highlighting=..., latest_weight=...),
\* the call of process_question (questions_model.py lines 164-169)
FullCall(question, latest_filter, highlighting, latest_weight) ==
    [question |-> question,
     kwds |-> << <<"latest_filter", latest_filter>>, <<"highlighting", highlighting>>,
                 <<"latest_weight", latest_weight>> >>]

\* make_query(question, latest_filter=...), the call of line 251
FilterCall(question, latest_filter) ==
    [question |-> question, kwds |-> << <<"latest_filter", latest_filter>> >>]

\* the parameters of the call, those not passed at their defaults (lines 168-170)
Parameters(c) ==
    [question |-> c.question,
     latest_filter |-> Field(c.kwds, "latest_filter", <<"o", "n">>),
     highlighting |-> Field(c.kwds, "highlighting", TRUE),
     latest_weight |-> Field(c.kwds, "latest_weight", 1)]

\* a memo keyed by the question alone
CacheKeyQuestion(c) == <<c.question>>

\* functools._make_key(args, kwds, typed=False): the positional arguments, then
\* the keyword arguments as passed
CacheKey(c) == <<c.question>> \o c.kwds

\* the place of the entry of key in the memo, 0 when it has none
Lookup(entries, key) ==
    IF \E i \in 1..Len(entries) : entries[i].key = key
    THEN CHOOSE i \in 1..Len(entries) : entries[i].key = key
    ELSE 0

\* a hit makes the entry the most recently used
Touched(entries, at) ==
    SubSeq(entries, 1, at - 1) \o SubSeq(entries, at + 1, Len(entries)) \o <<entries[at]>>

\* a miss stores the result, in place of the least recently used entry when
\* the memo is full
Stored(entries, entry) ==
    IF Len(entries) >= maxsize THEN Append(Tail(entries), entry) ELSE Append(entries, entry)

\* one call, the same call for another question, calls that differ from it in
\* one keyword argument each, and calls that pass the filter alone
CacheCalls ==
    {FullCall("q1", <<"o", "n">>, TRUE, 1),
     FullCall("q2", <<"o", "n">>, TRUE, 1),
     FullCall("q1", <<"o", "f", "f">>, TRUE, 1),
     FullCall("q1", <<"o", "n">>, FALSE, 1),
     FullCall("q1", <<"o", "n">>, TRUE, 0),
     FilterCall("q1", <<"o", "n">>),
     FilterCall("q1", <<"o", "f", "f">>)}

\* the stores of the memo's runs: one whose nearest chunks differ with the
\* filter and the weight, one with nothing near enough
CacheIndexes ==
    {<<Chunk("A", 2024, 300, TRUE, "p2"), Chunk("B", 2022, 450, TRUE, "p3"),
       Chunk("B", 2023, 505, FALSE, "p4")>>,
     <<Chunk("C", 2021, 2500, FALSE, "p6")>>}

InitCache ==
    /\ StoreIdle
    /\ LocatorIdle
    /\ BuildIdle
    /\ RaceIdle
    /\ db \in CacheIndexes
    /\ asked = NotAsked
    /\ reranked = <<>>
    /\ input_documents = <<>>
    /\ llm_raw = <<>>
    /\ llm_calls = 0
    /\ returned = NotAsked
    /\ enhanced = NotAsked
    /\ cache = <<>>
    /\ searches = 0
    /\ served = <<>>

\* a call of the decorated make_query that finds its key in the memo
CacheHit ==
    /\ Len(served) < MaxCalls
    /\ \E c \in CacheCalls :
          LET at == Lookup(cache, CacheKey(c))
          IN  /\ at # 0
              /\ cache' = Touched(cache, at)
              /\ returned' = cache[at].result
              /\ asked' = [op |-> "make_query", question |-> c.question,
                           latest_filter |-> Parameters(c).latest_filter,
                           highlighting |-> Parameters(c).highlighting,
                           latest_weight |-> Parameters(c).latest_weight]
              /\ served' = Append(served, [call |-> c, hit |-> TRUE,
                                           computed_at |-> cache[at].computed_at])
    /\ UNCHANGED <<store_vars, locator_vars, build_vars, race_vars, db, reranked,
                   input_documents, llm_raw, llm_calls, enhanced, searches>>

\* a call that does not: make_query runs and its result is stored
CacheMiss ==
    /\ Len(served) < MaxCalls
    /\ \E c \in CacheCalls :
          /\ Lookup(cache, CacheKey(c)) = 0
          /\ \E o \in MakeQueryOutcomes(db, Parameters(c).latest_filter,
                                        Parameters(c).highlighting,
                                        Parameters(c).latest_weight,
                                        << <<"output_text", Answered>> >>) :
                /\ asked' = [op |-> "make_query", question |-> c.question,
                             latest_filter |-> Parameters(c).latest_filter,
                             highlighting |-> Parameters(c).highlighting,
                             latest_weight |-> Parameters(c).latest_weight]
                /\ searches' = searches + 1
                /\ reranked' = o.reranked
                /\ input_documents' = o.input
                /\ llm_raw' = IF o.called THEN << <<"output_text", Answered>> >> ELSE llm_raw
                /\ llm_calls' = IF o.called THEN llm_calls + 1 ELSE llm_calls
                /\ returned' = o.result
                /\ cache' = Stored(cache, [key |-> CacheKey(c), result |-> o.result,
                                           computed_at |-> Len(served) + 1])
                /\ served' = Append(served, [call |-> c, hit |-> FALSE,
                                             computed_at |-> Len(served) + 1])
    /\ UNCHANGED <<store_vars, locator_vars, build_vars, race_vars, db, enhanced>>

NextCache ==
    \/ CacheHit
    \/ CacheMiss

SpecCache == InitCache /\ [][NextCache]_vars

(***************************************************************************)
(* Two calls of unflag_former_latest running at once on one directory:     *)
(* latest_updates.py lines 66-74, a step for every access to the file.     *)
(* Each run goes through its names; for a name it opens the record (line   *)
(* 68), reads and parses it (line 69), opens it again for writing, which   *)
(* empties it (line 73), and writes the amended record (line 74).          *)
(***************************************************************************)
Procs == {1, 2}

\* a record that open(filepath, "w") has emptied
Truncated == [fmt |-> "empty", obj |-> <<>>]

\* json.load raises JSONDecodeError on an empty file as on any text that is
\* not JSON
Unreadable(file) == Corrupt(file) \/ file = Truncated

\* open() with a lock on the record: it waits while the other run is between
\* its own open and its write of the same record
MayOpenLocked(rs, p, n) ==
    \A q \in Procs \ {p} :
        ~(rs[q].pc \in {"load", "truncate", "write"} /\ rs[q].names[rs[q].i] = n)

\* open(filepath, "r") of line 68 waits for nothing: no lock guards the record
MayOpen(rs, p, n) == TRUE

\* a run at the start of its loop over names
Run(names) ==
    [names |-> names, i |-> 1, pc |-> IF names = <<>> THEN "done" ELSE "open",
     json_amend |-> NotJson, err |-> "none", opened |-> "none"]

\* the record the run is working on
Current(r) == r.names[r.i]

\* the records of the model's stores that the runs share
RaceStores == {sc.main : sc \in {x \in Scenarios : Cardinality(DOMAIN x.main) <= 2}}

RaceNameLists(m) == UNION {[1..n -> DOMAIN m \cup {Name(nil)}] : n \in 0..MaxRaceNames}

InitRace ==
    /\ dir = Dir1
    /\ main \in RaceStores
    /\ temp = NoFiles
    /\ split = NoFiles
    /\ built = FALSE
    /\ latest_filepaths = <<>>
    /\ new_latest = <<>>
    /\ former_latest = <<>>
    /\ call = [op |-> "none", err |-> "none"]
    /\ pass = NoPass
    /\ LocatorIdle
    /\ QueryIdle
    /\ BuildIdle
    /\ CacheIdle
    /\ runs \in [Procs -> {Run(names) : names \in RaceNameLists(main)}]

\* line 68: open(filepath, "r"); opened records what the file held then
OpenRecord(p) ==
    /\ runs[p].pc = "open"
    /\ MayOpen(runs, p, Current(runs[p]))
    /\ LET r == runs[p]
       IN  runs' = [runs EXCEPT ![p] =
                      IF Current(r) \notin DOMAIN main
                      THEN [r EXCEPT !.pc = "raised", !.err = "FileNotFoundError"]
                      ELSE [r EXCEPT !.pc = "load",
                                     !.opened = IF main[Current(r)] = Truncated
                                                THEN "truncated" ELSE "written"]]
    /\ UNCHANGED <<store_vars, locator_vars, query_vars, build_vars, cache_vars>>

\* lines 69-71: json.load, the flag set, json.dumps
LoadRecord(p) ==
    /\ runs[p].pc = "load"
    /\ LET r == runs[p]
       IN  runs' = [runs EXCEPT ![p] =
                      IF Unreadable(main[Current(r)])
                      THEN [r EXCEPT !.pc = "raised", !.err = "JSONDecodeError"]
                      ELSE [r EXCEPT !.pc = "truncate",
                                     !.json_amend = Unflagged(main[Current(r)])]]
    /\ UNCHANGED <<store_vars, locator_vars, query_vars, build_vars, cache_vars>>

\* line 73: open(filepath, "w") leaves the record empty
TruncateRecord(p) ==
    /\ runs[p].pc = "truncate"
    /\ main' = Written(main, Current(runs[p]), Truncated)
    /\ runs' = [runs EXCEPT ![p].pc = "write"]
    /\ UNCHANGED <<locator_vars, query_vars, build_vars, cache_vars, dir, temp, split, built, latest_filepaths, new_latest,
                   former_latest, call, pass>>

\* line 74 and the end of the with block: the amended record is on disk, and
\* the loop goes on to the next name
WriteRecord(p) ==
    /\ runs[p].pc = "write"
    /\ main' = Written(main, Current(runs[p]), runs[p].json_amend)
    /\ LET r == runs[p]
       IN  runs' = [runs EXCEPT ![p] =
                      IF r.i = Len(r.names) THEN [r EXCEPT !.pc = "done"]
                      ELSE [r EXCEPT !.pc = "open", !.i = r.i + 1]]
    /\ UNCHANGED <<locator_vars, query_vars, build_vars, cache_vars, dir, temp, split, built, latest_filepaths, new_latest,
                   former_latest, call, pass>>

NextRace ==
    \E p \in Procs :
        \/ OpenRecord(p)
        \/ LoadRecord(p)
        \/ TruncateRecord(p)
        \/ WriteRecord(p)

SpecRace == InitRace /\ [][NextRace]_vars

(***************************************************************************)
(* Vocabulary of the properties.                                           *)
(***************************************************************************)
\* the range of a sequence
Range(seq) == {seq[i] : i \in 1..Len(seq)}

NoRepeats(seq) == \A i, j \in 1..Len(seq) : seq[i] = seq[j] => i = j

\* the latest field of a record holds v
FlagIs(file, v) == ~Corrupt(file) /\ HasKey(file.obj, "latest") /\ Get(file.obj, "latest") = v

\* the two records agree on whether they are latest
SameFlag(f, g) == \A v \in BOOLEAN : FlagIs(f, v) <=> FlagIs(g, v)

\* the *.json records of a listing
Records(fs) == {n \in DOMAIN fs : EndsWith(n, DotJson)}

\* section file s of the listing sp was derived from publication record pub:
\* it is named {id}_{n}.json after the record's id and one of its content entries
SectionOf(s, pub) ==
    /\ ~Corrupt(pub)
    /\ HasKey(pub.obj, "id")
    /\ HasKey(pub.obj, "content")
    /\ \E n \in 0..(Len(Get(pub.obj, "content")) - 1) : s = SectionName(Get(pub.obj, "id"), n)

\* the fuzzy ratio of two file names is strictly greater than 75
Above75(a, b) == 200 * Lcs(a, b) > 75 * (Len(a) + Len(b))

\* the file names compare_latest was given: the inbound ones and the existing latest ones
InboundNames == Records(temp)

ExistingNames == {Basename(latest_filepaths[i]) : i \in 1..Len(latest_filepaths)}

\* the lists of names a propagation step can have been called with
CalledWith == NameLists \cup {former_latest}

Returned(op) == call.op = op /\ call.err = "none"

(***************************************************************************)
(* Properties.                                                             *)
(***************************************************************************)

\* C2: a call of unflag_former_latest(dir, names) that returns leaves every named
\* record with latest = false and with every other field as it was, and leaves
\* the records that are not named exactly as they were.
UnflagFrameEffect ==
    [][\A names \in CalledWith :
          (/\ call'.op = "unflag_former_latest"
           /\ call'.err = "none"
           /\ \E st \in {"none", "unflagged"} : UnflagFormerLatest(names, st))
          => /\ DOMAIN main' = DOMAIN main
             /\ \A n \in Range(names) :
                   /\ n \in DOMAIN main
                   /\ FlagIs(main'[n], FALSE)
                   /\ Keys(main'[n].obj) \ {"latest"} = Keys(main[n].obj) \ {"latest"}
                   /\ \A k \in Keys(main[n].obj) \ {"latest"} :
                         Get(main'[n].obj, k) = Get(main[n].obj, k)
             /\ \A n \in DOMAIN main \ Range(names) : main'[n] = main[n]]_vars

\* C2 witness: unflag_former_latest has returned after rewriting a record that
\* carries a title, an id and content beside the flag.
UnflagFrameWitness ==
    /\ Returned("unflag_former_latest")
    /\ \E n \in DOMAIN main :
          /\ main[n].fmt = "indent4"
          /\ FlagIs(main[n], FALSE)
          /\ {"id", "title", "content"} \subseteq Keys(main[n].obj)

\* C3: after update_split_documents(split_dir, names) has returned, every section
\* file whose name begins with the first 60 characters of a name of names
\* (".json" removed) has latest = false.
UpdateSplitFlagsPrefix ==
    [][\A names \in CalledWith :
          (/\ call'.op = "update_split_documents"
           /\ call'.err = "none"
           /\ \E st \in {"none", "updated"} : UpdateSplitDocuments(names, st))
          => \A fl \in Range(names) : \A s \in Records(split') :
                StartsWith(s, Take(Remove(fl, DotJson), 60)) => FlagIs(split'[s], FALSE)]_vars

\* C3 witness: update_split_documents has returned and a section file whose name
\* is longer than 60 characters, matched on its first 60, is flagged false.
UpdateSplitWitness ==
    /\ Returned("update_split_documents")
    /\ \E s \in DOMAIN split : Len(s) > 60 + Len(DotJson) /\ FlagIs(split[s], FALSE)

\* C5: compare_latest reports an inbound name exactly when its fuzzy ratio with
\* some existing latest name is strictly greater than 75, and an existing latest
\* name exactly when some inbound name is that close to it; with no such pair,
\* or no inbound document, both lists are empty and nothing is raised.
CompareThreshold ==
    pass.stage = "compared" =>
        /\ call.err = "none"
        /\ Range(new_latest) =
              {n \in InboundNames : \E l \in ExistingNames : Above75(n, l)}
        /\ Range(former_latest) =
              {l \in ExistingNames : \E n \in InboundNames : Above75(n, l)}

\* C5 witness: compare_latest has returned two empty lists for an inbound name
\* whose ratio with an existing latest name is exactly 75.
CompareThresholdWitness ==
    /\ pass.stage = "compared"
    /\ new_latest = <<>> /\ former_latest = <<>>
    /\ \E n \in InboundNames : \E l \in ExistingNames :
          200 * Lcs(n, l) = 75 * (Len(n) + Len(l))

\* C6: find_latest(dir) returns exactly the paths of the *.json records of dir
\* whose latest field is true and whose file name does not hold "0000"; a
\* "0000" in the path of dir excludes nothing.
FindLatestFilter ==
    pass.stage = "found" =>
        /\ NoRepeats(latest_filepaths)
        /\ Range(latest_filepaths) =
              {Join(dir, n) : n \in {x \in Records(main) :
                                        FlagIs(main[x], TRUE) /\ ~Contains(x, Zeros)}}

\* C6 witness: find_latest has returned a record of a store whose path holds
\* "0000", leaving out a latest record whose file name holds it.
FindLatestWitness ==
    /\ pass.stage = "found"
    /\ Contains(dir, Zeros)
    /\ latest_filepaths # <<>>
    /\ \E n \in Records(main) : Contains(n, Zeros) /\ FlagIs(main[n], TRUE)

\* C7: no name appears twice in new_latest and none twice in former_latest.
CompareDeduplicates == NoRepeats(new_latest) /\ NoRepeats(former_latest)

\* C7 witness: compare_latest has returned from a many-to-many match: two
\* inbound names that each match two existing latest names.
CompareDeduplicatesWitness ==
    /\ pass.stage = "compared"
    /\ Len(new_latest) = 2 /\ Len(former_latest) = 2
    /\ \A n \in Range(new_latest) : \A l \in Range(former_latest) : Above75(n, l)

\* C8: when two different inbound names both match the same existing latest name,
\* compare_latest reports both inbound names and the existing name once.
CompareReportsBoth ==
    pass.stage = "compared" =>
        \A n1, n2 \in InboundNames : \A l \in ExistingNames :
            (n1 # n2 /\ Above75(n1, l) /\ Above75(n2, l))
            => /\ n1 \in Range(new_latest)
               /\ n2 \in Range(new_latest)
               /\ Cardinality({i \in 1..Len(former_latest) : former_latest[i] = l}) = 1

\* C8 witness: compare_latest has returned for two inbound names matching the
\* same existing latest name.
CompareReportsBothWitness ==
    /\ pass.stage = "compared"
    /\ \E n1, n2 \in InboundNames : \E l \in ExistingNames :
          n1 # n2 /\ Above75(n1, l) /\ Above75(n2, l)

\* C1: after unflag_former_latest(dir, S) followed by update_split_documents(
\* split_dir, S), every section file derived from a publication record has the
\* latest flag of that record, if it had it before the two calls.
SectionsFollowParent ==
    pass.stage = "updated" =>
        \A p \in Records(main) : \A s \in DOMAIN split :
            (/\ SectionOf(s, main[p])
             /\ SameFlag(pass.pre.split[s], pass.pre.main[p]))
            => SameFlag(split[s], main[p])

\* C4: update_split_documents(split_dir, names) leaves untouched every section
\* file of a publication that is not named, also when that publication's file
\* name starts with the same prefix as a named one.
UpdateSplitLeavesOthers ==
    [][\A names \in CalledWith :
          (/\ call'.op = "update_split_documents"
           /\ \E st \in {"none", "updated"} : UpdateSplitDocuments(names, st))
          => \A s \in DOMAIN split :
                (/\ \E p \in Records(main) \ Range(names) : SectionOf(s, main[p])
                 /\ ~\E p \in Records(main) \cap Range(names) : SectionOf(s, main[p]))
                => split'[s] = split[s]]_vars

\* two publications of one series: the same record, or file names whose fuzzy
\* ratio is above 75
SameSeries(p, q) == p = q \/ Above75(p, q)

\* C9: once a maintenance pass has run and the inbound documents have joined the
\* store, the series of every inbound document has exactly one publication with
\* latest = true.
OneLatestPerSeries ==
    pass.stage = "merged" =>
        \A n \in Records(pass.pre.temp) :
            Cardinality({q \in Records(main) : SameSeries(n, q) /\ FlagIs(main[q], TRUE)}) = 1

\* C10: from a store holding one latest publication E and an inbound directory
\* holding one publication N whose name has ratio above 75 with E's, the pass
\* find_latest, compare_latest, unflag_former_latest, update_split_documents
\* returns new_latest = [N] and former_latest = [E] and leaves E's record and
\* every section of E with latest = false and N's record as it was.
EndToEndSupersession ==
    \A E \in Records(pass.pre.main) : \A N \in Records(pass.pre.temp) :
        (/\ pass.stage = "updated"
         /\ DOMAIN pass.pre.main = {E}
         /\ DOMAIN pass.pre.temp = {N}
         /\ FlagIs(pass.pre.main[E], TRUE)
         /\ Above75(N, E))
        => /\ new_latest = <<N>>
           /\ former_latest = <<E>>
           /\ FlagIs(main[E], FALSE)
           /\ \A s \in DOMAIN split : SectionOf(s, main[E]) => FlagIs(split[s], FALSE)
           /\ temp = pass.pre.temp

\* C11: in unflag_former_latest and update_split_documents a name whose file is
\* missing or unreadable does not abort the call: the call returns, and every
\* other name of the batch ends with latest = false.
BatchSurvivesBadItem ==
    [][\A names \in CalledWith :
          /\ (/\ call'.op = "unflag_former_latest"
              /\ \E st \in {"none", "unflagged"} : UnflagFormerLatest(names, st))
             => /\ call'.err = "none"
                /\ \A n \in Range(names) \cap DOMAIN main :
                      ~Corrupt(main[n]) => FlagIs(main'[n], FALSE)
          /\ (/\ call'.op = "update_split_documents"
              /\ \E st \in {"none", "updated"} : UpdateSplitDocuments(names, st))
             => /\ call'.err = "none"
                /\ \A fl \in Range(names) : \A s \in SplitDocs(split, fl) :
                      ~Corrupt(split[s]) => FlagIs(split'[s], FALSE)]_vars

\* C12: a record without the latest key never makes find_latest or
\* _json_splitter raise; it is left out of the result of find_latest as a record
\* that is not latest.
LegacyRecordTolerated ==
    LET legacy == {n \in Records(main) : ~Corrupt(main[n]) /\ ~HasKey(main[n].obj, "latest")}
    IN  /\ call.op \in {"find_latest", "_json_splitter"} => call.err # "KeyError"
        /\ Returned("find_latest") => legacy \cap ExistingNames = {}

\* the number of places of a sequence that hold x
Count(seq, x) == Cardinality({i \in 1..Len(seq) : seq[i] = x})

\* C13: find_matching_chunks(db_dict, docs) returns keys of db_dict only, and
\* each key k as many times as there are places in docs whose name has its
\* first 60 characters occurring somewhere in the source stored under k.
ChunksPerMatch ==
    /\ Range(matched_chunks) \subseteq {db_dict[i][1] : i \in 1..Len(db_dict)}
    /\ \A i \in 1..Len(db_dict) :
          Count(matched_chunks, db_dict[i][1])
             = Cardinality({j \in 1..Len(docs) :
                   \E at \in 1..Len(db_dict[i][2]) + 1 :
                       LET p == IF Len(docs[j]) > 60 THEN SubSeq(docs[j], 1, 60) ELSE docs[j]
                       IN  /\ at + Len(p) - 1 <= Len(db_dict[i][2])
                           /\ SubSeq(db_dict[i][2], at, at + Len(p) - 1) = p})

\* C13 witness: a key returned twice, matched inside its source path by two
\* names longer than 60 characters.
ChunksPerMatchWitness ==
    \E i \in 1..Len(db_dict) :
        /\ Count(matched_chunks, db_dict[i][1]) = 2
        /\ \A j \in 1..Len(docs) : Len(docs[j]) > 60
        /\ docs # <<>>
        /\ \A j \in 1..Len(docs) : ~StartsWith(db_dict[i][2], Take(docs[j], 60))

(***************************************************************************)
(* Vocabulary of the properties of the query path.                         *)
(***************************************************************************)
\* make_query / query_texts has returned
Made == returned.op = "make_query"

\* the places of db that the search of the last make_query yields: with the
\* filter on, chunks of latest publications only; the 10 nearest; none farther
\* than 2.0
Candidates ==
    LET on == asked.latest_filter \in {<<"o", "n">>, <<"T", "r", "u", "e">>}
        kept == {i \in 1..Len(db) : on => db[i].latest}
    IN  {i \in kept : db[i].score <= 2000 /\ Cardinality({j \in kept : j < i}) < 10}

SameKey(a, b) == a.title = b.title /\ a.date = b.date

\* the candidates that are the first of their (title, date)
FirstOfKey == {c \in Candidates : \A e \in Candidates : e < c => ~SameKey(db[e], db[c])}

\* candidate c is not farther than candidate e once both distances are divided
\* by the decay of latest_weight
AdjustedNotAfter(c, e) ==
    LET dc == IF asked.latest_weight > 0 THEN TimeDecay(db[c].date, asked.latest_weight) ELSE 1
        de == IF asked.latest_weight > 0 THEN TimeDecay(db[e].date, asked.latest_weight) ELSE 1
    IN  db[c].score * de <= db[e].score * dc

\* the place of candidate c in the list handed on
Place(c) == CHOOSE i \in 1..Len(reranked) : SameKey(reranked[i], db[c])

\* the i-th smallest element of a set of numbers
Nth(S, i) == CHOOSE x \in S : Cardinality({y \in S : y < x}) = i - 1

\* the document list is the two placeholder strings
IsPlaceholders(documents) ==
    /\ Len(documents) = 2
    /\ DOMAIN documents[1] = {"str"}
    /\ DOMAIN documents[2] = {"str"}
    /\ documents[1].str = "No suitable PDFs found. Please refer to context"
    /\ documents[2].str = "No context available. Please refer to response"

\* the document list is the list ds, highlighted or not
IsList(documents, ds) ==
    /\ Len(documents) = Len(ds)
    /\ \A i \in 1..Len(ds) :
          /\ {"title", "date", "score", "page_content"} \subseteq DOMAIN documents[i]
          /\ SameKey(documents[i], ds[i])
          /\ documents[i].score = ds[i].score
          /\ documents[i].page_content = ds[i].page_content

IsFallback(answer_str) ==
    answer_str =
       <<"No suitable answer found. However relevant information may be found in a PDF. ",
         "Please check the link(s) provided.">>

IsSynthesized(answer_str, most_likely_answer) ==
    /\ Len(answer_str) = 4
    /\ answer_str[1] = "Most relevant quote from publications below: "
    /\ answer_str[3] = most_likely_answer

\* the outputs of the language model that do not fit the response schema
Unparseable ==
    {<< <<"output_text", Garbled>> >>, << <<"output_text", Flagless>> >>,
     << <<"result", Answered>> >>}

(***************************************************************************)
(* Properties of the query path.                                           *)
(***************************************************************************)
\* C14: when the similarity search yields no candidates, make_query returns the
\* empty document list, "" and a response with answer_provided = False, and the
\* language model is not invoked.
NoCandidatesShortCircuit ==
    (Made /\ Candidates = {})
    => /\ returned.documents = <<>>
       /\ returned.answer_str = <<>>
       /\ returned.validated_response.answer_provided = FALSE
       /\ llm_calls = 0
       /\ input_documents = <<>>

\* C14 witness: make_query has returned for a store that holds chunks near the
\* question, none of which the search yields.
NoCandidatesWitness == Made /\ Candidates = {} /\ db # <<>>

\* C15: when the top candidate's score exceeds document_threshold (0.9) the
\* document list returned by make_query is exactly the two placeholder strings;
\* otherwise it is the re-ranked candidate list.
DocumentGateReplaces ==
    Made =>
       IF reranked # <<>> /\ reranked[1].score > 900
       THEN IsPlaceholders(returned.documents)
       ELSE IsList(returned.documents, reranked)

\* C15 witness: the placeholders are returned although the language model
\* provided an answer.
DocumentGateWitness ==
    /\ Made
    /\ IsPlaceholders(returned.documents)
    /\ returned.validated_response.answer_provided = TRUE
    /\ returned.validated_response.most_likely_answer = "4.2%"

\* C16: the answer text of make_query is the fallback message whenever the
\* response has answer_provided = False or the top candidate's score is greater
\* than answer_threshold (0.5), and the synthesized answer in every other case.
AnswerTextByGate ==
    Made =>
       IF \/ returned.validated_response.answer_provided = FALSE
          \/ reranked # <<>> /\ reranked[1].score > 500
       THEN IsFallback(returned.answer_str)
       ELSE IsSynthesized(returned.answer_str,
                          returned.validated_response.most_likely_answer)

\* C16 as amended: when the search yields at least one candidate, the answer
\* text is the fallback message if the response has answer_provided = False or
\* the top candidate's score is greater than 0.5, and the synthesized answer
\* otherwise.
AnswerTextByGateOnCandidates ==
    (Made /\ Candidates # {}) =>
       IF \/ returned.validated_response.answer_provided = FALSE
          \/ reranked[1].score > 500
       THEN IsFallback(returned.answer_str)
       ELSE IsSynthesized(returned.answer_str,
                          returned.validated_response.most_likely_answer)

\* C16 witness: a synthesized answer returned for a top score of exactly 0.5.
AnswerTextWitness ==
    /\ Made
    /\ Candidates # {}
    /\ reranked[1].score = 500
    /\ IsSynthesized(returned.answer_str, "4.2%")

\* C17: when the output of the language model does not parse into the response
\* schema, query_texts returns a response with answer_provided = False, empty
\* highlight lists and a reasoning that records the parse error and the output.
ParseFailureRecovered ==
    (llm_calls = 1 /\ llm_raw \in Unparseable)
    => /\ returned.op \in {"make_query", "query_texts"}
       /\ returned.validated_response.answer_provided = FALSE
       /\ returned.validated_response.highlighting1 = <<>>
       /\ returned.validated_response.highlighting2 = <<>>
       /\ returned.validated_response.highlighting3 = <<>>
       /\ Len(returned.validated_response.reasoning) = 4
       /\ returned.validated_response.reasoning[1] = "Cannot parse response: "
       /\ returned.validated_response.reasoning[2] # ""
       /\ returned.validated_response.reasoning[4] = llm_raw

\* C17 witness: make_query has returned after the language model gave back text
\* that is not JSON.
ParseFailureWitness ==
    /\ Made
    /\ llm_calls = 1
    /\ llm_raw = << <<"output_text", Garbled>> >>

WeightZeroNoOp ==
    (Made /\ asked.latest_weight = 0 /\ Candidates # {})
    => /\ Len(reranked) = Cardinality(FirstOfKey)
       /\ \A i \in 1..Len(reranked) :
             LET c == Nth(FirstOfKey, i)
             IN  /\ SameKey(reranked[i], db[c])
                 /\ reranked[i].score % 10 = 0
                 /\ reranked[i].score - db[c].score \in -5..5
                 /\ \A e \in FirstOfKey : e < c => db[e].score <= db[c].score

\* C20 witness: weight 0, a duplicate dropped, two candidates left, one of them
\* with a distance halfway between two hundredths.
WeightZeroWitness ==
    /\ Made
    /\ asked.latest_weight = 0
    /\ Cardinality(FirstOfKey) >= 2
    /\ Cardinality(Candidates) > Cardinality(FirstOfKey)
    /\ \E c \in FirstOfKey : db[c].score % 10 = 5

\* C21: for every latest_weight the candidate list that make_query passes to
\* query_texts and to the two gates is in ascending order of score, and its
\* first element is a candidate whose adjusted score (distance divided by decay)
\* is the smallest; the list returned, when it is not the placeholders, is in
\* the same order.
RerankedAscending ==
    (Made /\ Candidates # {})
    => /\ \A i, j \in 1..Len(reranked) : i < j => reranked[i].score <= reranked[j].score
       /\ \E c \in FirstOfKey :
             /\ SameKey(reranked[1], db[c])
             /\ reranked[1].page_content = db[c].page_content
             /\ \A e \in FirstOfKey : AdjustedNotAfter(c, e)
       /\ IsPlaceholders(returned.documents) \/ IsList(returned.documents, reranked)

\* C21 witness: with a weight above 0 the candidate handed on first is not the
\* one the search found nearest.
RerankedWitness ==
    /\ Made
    /\ asked.latest_weight > 0
    /\ Cardinality(FirstOfKey) >= 2
    /\ ~SameKey(reranked[1], db[Nth(FirstOfKey, 1)])
    /\ reranked[1].score < reranked[Len(reranked)].score

\* C22: with latest_weight > 0 the score of every candidate is its distance
\* divided by a decay that is 1 for a document of age 0 and grows with age and
\* weight, and of two candidates at equal distance the one with the more recent
\* date is placed before the older one.
NewerRankedFirst ==
    (Made /\ Candidates # {} /\ asked.latest_weight > 0)
    => /\ \A c \in FirstOfKey :
             /\ TimeDecay(Today, asked.latest_weight) = 1
             /\ TimeDecay(db[c].date - 1, asked.latest_weight)
                   > TimeDecay(db[c].date, asked.latest_weight)
             /\ TimeDecay(db[c].date - 1, asked.latest_weight + 1)
                   > TimeDecay(db[c].date - 1, asked.latest_weight)
             /\ reranked[Place(c)].score
                   \in Round2(db[c].score, TimeDecay(db[c].date, asked.latest_weight))
       /\ \A c, e \in FirstOfKey :
             (db[c].score = db[e].score /\ db[c].date > db[e].date) => Place(c) < Place(e)

\* C24: for every query against an index that is not empty, the answer text
\* make_query returns is the synthesized answer or the fallback message, never
\* the empty string.
NeverEmptyAnswer ==
    (Made /\ db # <<>>)
    => /\ returned.answer_str # <<>>
       /\ \/ IsFallback(returned.answer_str)
          \/ IsSynthesized(returned.answer_str,
                           returned.validated_response.most_likely_answer)

\* C24 as amended: for every query whose search yields a candidate the answer
\* text is the synthesized answer or the fallback message; when the search
\* yields none, the index empty or not, the answer text is the empty string.
NeverEmptyAnswerOnCandidates ==
    Made =>
       IF Candidates # {}
       THEN /\ returned.answer_str # <<>>
            /\ \/ IsFallback(returned.answer_str)
               \/ IsSynthesized(returned.answer_str,
                                returned.validated_response.most_likely_answer)
       ELSE returned.answer_str = <<>>

\* C24 witness: the worst case with candidates: the output of the language
\* model fits no branch of the parser, the documents are replaced by the
\* placeholders, and the answer text is the fallback message.
NeverEmptyWitness ==
    /\ Made
    /\ Candidates # {}
    /\ llm_raw = << <<"result", Answered>> >>
    /\ IsPlaceholders(returned.documents)
    /\ IsFallback(returned.answer_str)

\* C29: with answer_threshold <= document_threshold, every result of make_query
\* whose document list is the two placeholder strings carries the fallback
\* answer text; a synthesized answer never comes with the placeholders.
PlaceholdersImplyFallback ==
    (answer_threshold <= document_threshold /\ Made /\ IsPlaceholders(returned.documents))
    => /\ IsFallback(returned.answer_str)
       /\ ~IsSynthesized(returned.answer_str,
                         returned.validated_response.most_likely_answer)

\* C29 witness: the placeholders and the fallback text returned, with
\* highlighting, for a response in which the language model gave an answer.
PlaceholdersWitness ==
    /\ Made
    /\ asked.highlighting
    /\ IsPlaceholders(returned.documents)
    /\ IsFallback(returned.answer_str)
    /\ returned.validated_response.answer_provided = TRUE
    /\ reranked[1].score > 900

\* C30: process_question returns an enhanced document list without raising for
\* every outcome of make_query: one enhanced document for every document
\* make_query returned, the two placeholder strings and the empty list included.
ProcessQuestionReturns ==
    enhanced.op = "process_question"
    => /\ enhanced.err = "none"
       /\ Len(enhanced.documents) = Len(returned.documents)

\* the publications a run of _json_splitter that returns works on: the records
\* with an id and content and, with latest_only, with latest = true
Processed(latest_only) ==
    {n \in DOMAIN main :
        /\ GlobJson(n)
        /\ ~Corrupt(main[n])
        /\ {"id", "content"} \subseteq Keys(main[n].obj)
        /\ latest_only => FlagIs(main[n], TRUE)}

\* entry k (from 0) of the content of record n has a page_text longer than 5
LongEntry(n, k) ==
    LET entry == Get(main[n].obj, "content")[k + 1]
    IN  HasKey(entry, "page_text") /\ Len(Get(entry, "page_text")) > 5

Dated(file) == ~Corrupt(file) /\ HasKey(file.obj, "release_date")

ReleaseDate(file) == Get(file.obj, "release_date")

\* C26: every name of new_latest returned by compare_latest is an inbound
\* publication released later than each existing latest publication it matched,
\* and every name of former_latest is an existing publication that an inbound
\* publication of its series, released later, has superseded.
NewLatestIsMoreRecent ==
    Returned("compare_latest")
    => /\ \A fp \in Range(new_latest) :
             /\ fp \in InboundNames
             /\ \A lf \in ExistingNames :
                   (Above75(fp, lf) /\ Dated(temp[fp]) /\ Dated(main[lf]))
                   => ReleaseDate(temp[fp]) > ReleaseDate(main[lf])
       /\ \A lf \in Range(former_latest) :
             /\ lf \in ExistingNames
             /\ Dated(main[lf])
                => \E fp \in InboundNames :
                      /\ Above75(fp, lf)
                      /\ Dated(temp[fp]) => ReleaseDate(temp[fp]) > ReleaseDate(main[lf])

\* C28: when PrepareVectorStore is constructed and the store it names does not
\* exist, then after the construction the files under self.faiss_db_root hold
\* what _embed_documents saved; the copy to the path without "_latest" has
\* emptied or changed none of them.
BuildKeepsStore ==
    [][\A faiss_db_root \in FaissDbRoots, latest_only \in BOOLEAN :
          (/\ FaissDbRoot(faiss_db_root, latest_only) \notin DOMAIN faiss
           /\ call'.op = "PrepareVectorStore"
           /\ call'.err = "none"
           /\ Construct(faiss_db_root, latest_only))
          => /\ FaissDbRoot(faiss_db_root, latest_only) \in DOMAIN faiss'
             /\ faiss'[FaissDbRoot(faiss_db_root, latest_only)]
                   = SaveLocal({n \in DOMAIN split' : GlobJson(n)})]_vars

\* call n repeats an earlier call: the same arguments passed the same way
Repeated(n) == \E i \in 1..(n - 1) : served[i].call = served[n].call

\* the calls with other arguments made since the last call like call n
SinceLast(n) ==
    LET last == CHOOSE i \in 1..(n - 1) :
                   /\ served[i].call = served[n].call
                   /\ \A j \in (i + 1)..(n - 1) : served[j].call # served[n].call
    IN  {served[j].call : j \in (last + 1)..(n - 1)}

\* what the memo guarantees of every call whatever it keeps: the result comes
\* from a call with the same four parameters, no two entries have one key, a
\* call answered from the memo runs neither the search nor the language model
MemoSound ==
    /\ \A n \in 1..Len(served) :
          /\ served[n].computed_at <= n
          /\ Parameters(served[served[n].computed_at].call) = Parameters(served[n].call)
          /\ served[n].hit <=> served[n].computed_at < n
    /\ \A c, d \in CacheCalls : Parameters(c) # Parameters(d) => CacheKey(c) # CacheKey(d)
    /\ \A i, j \in 1..Len(cache) : cache[i].key = cache[j].key => i = j
    /\ searches = Cardinality({n \in 1..Len(served) : ~served[n].hit})
    /\ llm_calls = IF SimilaritySearch(db, FALSE) = <<>> THEN 0 ELSE searches
    /\ served # <<>> /\ served[Len(served)].hit
          => returned = cache[Len(cache)].result

\* C23: make_query serves a memoized result only to a call whose question,
\* latest_filter, highlighting and latest_weight equal those of the call that
\* computed it, and every repeated identical call is answered from the memo,
\* without the search or the language model being invoked again.
MemoServesEveryRepeat ==
    /\ MemoSound
    /\ \A n \in 1..Len(served) : served[n].hit <=> Repeated(n)

\* C23 as amended: a memoized result is served only to a call with the same
\* four parameters, and a repeated identical call is answered from the memo,
\* without search or language model, exactly when fewer than maxsize calls with
\* other arguments were made since the last identical call.
MemoServesRecentRepeat ==
    /\ MemoSound
    /\ \A n \in 1..Len(served) :
          served[n].hit <=> (Repeated(n) /\ Cardinality(SinceLast(n)) < maxsize)

\* C23 witness: the third call repeats the first after a call that differs in
\* one parameter, and is answered from the memo: two searches, two invocations
\* of the language model.
MemoWitness ==
    /\ Len(served) = 3
    /\ served[3].hit
    /\ served[3].call = served[1].call
    /\ served[2].call # served[1].call
    /\ Parameters(served[2].call).question = Parameters(served[1].call).question
    /\ searches = 2
    /\ llm_calls = 2

\* run p has emptied record n and not yet written it
Emptied(p, n) == runs[p].pc = "write" /\ Current(runs[p]) = n /\ main[n] = Truncated

\* C27: the read-modify-write of unflag_former_latest is not atomic: while one
\* run has a record emptied and not yet written, nothing keeps another run
\* from opening the same record, and a run that parses a record opened in that
\* state before the content is written ends in JSONDecodeError.
RaceNotExcluded ==
    \A p, q \in Procs :
        p # q =>
           /\ (runs[q].pc = "open" /\ Emptied(p, Current(runs[q])))
              => ENABLED OpenRecord(q)
           /\ (runs[q].pc = "load" /\ Emptied(p, Current(runs[q])))
              => ENABLED (LoadRecord(q) /\ runs'[q].err = "JSONDecodeError")

\* C27 witness: a run has opened, for reading, a record that the other run had
\* emptied and has not written yet.
RaceWitness ==
    \E p, q \in Procs :
        /\ p # q
        /\ runs[q].pc = "load"
        /\ runs[q].opened = "truncated"
        /\ Emptied(p, Current(runs[q]))

====
